---- MODULE Spec2Model ----
(***************************************************************************)
(* syft-priority-sync: the receiver of instant syncs (server.py), the      *)
(* permission mapping and the sender (client.py), the file watcher with    *)
(* its dispatcher (watcher.py) and the rule store (api.py).                *)
(*                                                                         *)
(* A path is a sequence of components; an absolute path starts with the   *)
(* component "/".  A filesystem is a function from paths to entries.      *)
(***************************************************************************)
EXTENDS Integers, Sequences, FiniteSets, TLC

VARIABLES
    tree,            \* the datasite directory: what the receiver writes and the watcher watches
    treeBefore,      \* the tree just before the last request
    request,         \* the last SyncRequest handed to handle_sync_request
    grants,          \* what check_permission answered for it: the kinds it allows, or a failure
    response,        \* the SyncResponse the handler returned
    escaped,         \* TRUE when the handler raised instead of returning
    sidecar,         \* the <name>.syncpriority.yaml file next to each path
    file_checksums,  \* SyncPriorityHandler.file_checksums
    lastEvent,       \* the last filesystem event the observer delivered
    handled,         \* what the handler did with it
    sent,            \* the send_instant_sync calls made for it, in order
    observer_alive,  \* FileWatcher.is_running(): no handler has raised into the observer thread
    failed_before,   \* TRUE once the handling of some event met a failure
    api_call,        \* the last call of the api (set, get, remove, load, save) and its result
    sidecarBefore,   \* the sidecars just before that call
    rules_api_only,  \* TRUE while the managed path, which had no sidecar at first, has been
                     \* written by set and remove calls alone and the filesystem has not failed
    main_pc,         \* where the main thread of the app is (main.py)
    observer_thread, \* the watchdog observer thread of PrioritySyncApp.watcher
    set_calls,       \* the set_sync_priority calls that threads of the process are in
    peers            \* two peers that sync one file with each other: for each its copy
                     \* of the file, its checksum cache, the events its observer has
                     \* still to deliver and the request its receiver is handling

recvVars == <<tree, treeBefore, request, grants, response, escaped>>
watchVars == <<sidecar, file_checksums, lastEvent, handled, sent, observer_alive, failed_before>>
storeVars == <<api_call, sidecarBefore, rules_api_only>>
appVars == <<main_pc, observer_thread>>
raceVars == <<set_calls>>
echoVars == <<peers>>
vars == <<tree, treeBefore, request, grants, response, escaped,
          sidecar, file_checksums, lastEvent, handled, sent, observer_alive, failed_before,
          api_call, sidecarBefore, rules_api_only, main_pc, observer_thread,
          set_calls, peers>>

----------------------------------------------------------------------------
(* Bounds *)

\* file contents are 1..MaxContent; 0 is the empty byte string
MaxContent == 1

\* the longest rule list of a sidecar the watcher starts with
MaxRules == 2

\* the longest rule list the api calls build in a sidecar
MaxStoreRules == 2

----------------------------------------------------------------------------
(* Identities and paths *)

Self == "peer-a"
Peers == {"peer-b", "peer-c"}
Senders == {"peer-b"}

\* target_path / old_path values of an envelope: a file, a folder and a file in it
RelPaths == {<<"notes.txt">>, <<"docs">>, <<"docs", "notes.txt">>}

NoPath == <<>>

\* PrioritySyncServer._get_base_path: home / "SyftBox" / "datasites" / email
BasePathOf(email) == <<"/", "SyftBox", "datasites", email>>
base_path == BasePathOf(Self)

IsAbsolute(p) == Len(p) > 0 /\ p[1] = "/"

\* pathlib's base / p: an absolute right operand replaces the left one
Join(base, p) == IF IsAbsolute(p) THEN p ELSE base \o p

Parent(p) == SubSeq(p, 1, Len(p) - 1)
Name(p) == p[Len(p)]
IsPrefix(p, q) == Len(p) <= Len(q) /\ SubSeq(q, 1, Len(p)) = p

\* the entries the model keeps of the receiver's tree
FsPaths == {Join(base_path, r) : r \in RelPaths}

----------------------------------------------------------------------------
(* Filesystem entries and the os / pathlib / shutil calls the code makes *)

NoContent == -1
Contents == 0..MaxContent

Absent == [kind |-> "absent", content |-> NoContent]
Dir == [kind |-> "dir", content |-> NoContent]
File(c) == [kind |-> "file", content |-> c]

Entries == {Absent, Dir} \cup {File(c) : c \in Contents}

\* Path.exists(), Path.is_file(), Path.is_dir(); base_path and the directories
\* above it exist
PathExists(f, p) == IsPrefix(p, base_path) \/ (p \in DOMAIN f /\ f[p].kind # "absent")
PathIsFile(f, p) == p \in DOMAIN f /\ f[p].kind = "file"
PathIsDir(f, p) == IsPrefix(p, base_path) \/ (p \in DOMAIN f /\ f[p].kind = "dir")

\* p and the directories above it, as far as the model keeps them
AncestorsOrSelf(f, p) == {SubSeq(p, 1, n) : n \in 1..Len(p)} \cap DOMAIN f

\* an entry exists only below an existing directory
WellFormed(f) ==
    \A p \in DOMAIN f : f[p].kind # "absent" => PathIsDir(f, Parent(p))

\* Path.mkdir(parents=True, exist_ok=True): raises when p or a directory above
\* it is a regular file, and then creates nothing
MkdirParents(f, p) ==
    IF \E a \in AncestorsOrSelf(f, p) : PathIsFile(f, a)
    THEN [raised |-> TRUE, fs |-> f]
    ELSE [raised |-> FALSE,
          fs |-> [q \in DOMAIN f |-> IF q \in AncestorsOrSelf(f, p) THEN Dir ELSE f[q]]]

\* open(p, 'wb') and write c: raises on a directory or below a missing directory
WriteBytes(f, p, c) ==
    IF PathIsDir(f, p) \/ ~PathIsDir(f, Parent(p))
    THEN [raised |-> TRUE, fs |-> f]
    ELSE [raised |-> FALSE, fs |-> [f EXCEPT ![p] = File(c)]]

\* Path.touch(): creates an empty file, leaves an existing entry as it is
Touch(f, p) ==
    IF PathExists(f, p) THEN [raised |-> FALSE, fs |-> f]
    ELSE IF ~PathIsDir(f, Parent(p)) THEN [raised |-> TRUE, fs |-> f]
    ELSE [raised |-> FALSE, fs |-> [f EXCEPT ![p] = File(0)]]

\* Path.unlink()
Unlink(f, p) ==
    IF ~PathIsFile(f, p) THEN [raised |-> TRUE, fs |-> f]
    ELSE [raised |-> FALSE, fs |-> [f EXCEPT ![p] = Absent]]

\* shutil.rmtree(p): p and everything below it
Rmtree(f, p) ==
    IF ~PathIsDir(f, p) THEN [raised |-> TRUE, fs |-> f]
    ELSE [raised |-> FALSE,
          fs |-> [q \in DOMAIN f |-> IF IsPrefix(p, q) THEN Absent ELSE f[q]]]

\* os.rename(src, dst) of an existing src, with everything below it
Renamed(f, src, dst) ==
    [q \in DOMAIN f |->
        IF IsPrefix(dst, q) /\ (src \o SubSeq(q, Len(dst) + 1, Len(q))) \in DOMAIN f
            /\ f[src \o SubSeq(q, Len(dst) + 1, Len(q))].kind # "absent"
        THEN f[src \o SubSeq(q, Len(dst) + 1, Len(q))]
        ELSE IF IsPrefix(src, q) \/ IsPrefix(dst, q) THEN Absent
        ELSE f[q]]

\* the place shutil.move(src, dst) really moves to: inside dst when dst is a directory
RealDst(f, src, dst) ==
    IF PathIsDir(f, dst) /\ src # dst THEN dst \o <<Name(src)>> ELSE dst

\* shutil.move(src, dst) of an existing src
ShutilMove(f, src, dst) ==
    LET real == RealDst(f, src, dst) IN
    IF src = dst
        THEN [raised |-> FALSE, fs |-> f]          \* os.rename(p, p) changes nothing
    ELSE IF PathIsDir(f, dst) /\ (real = src \/ PathExists(f, real))
        THEN [raised |-> TRUE, fs |-> f]           \* Error: destination path already exists
    ELSE IF IsPrefix(src, real)
        THEN [raised |-> TRUE, fs |-> f]           \* a directory (or a file used as one) into itself
    ELSE IF PathIsDir(f, src) /\ PathIsFile(f, real)
        THEN [raised |-> TRUE, fs |-> f]           \* rename fails, copytree finds real taken
    ELSE IF ~PathIsDir(f, Parent(real))
        THEN IF PathIsDir(f, src) /\ ~MkdirParents(f, Parent(real)).raised
             THEN [raised |-> FALSE,               \* rename fails, copytree + rmtree succeed
                   fs |-> Renamed(MkdirParents(f, Parent(real)).fs, src, real)]
             ELSE [raised |-> TRUE, fs |-> f]
    ELSE [raised |-> FALSE, fs |-> Renamed(f, src, real)]

\* what ShutilMove would place outside the entries the model keeps
MoveLeavesModel(f, src, dst) ==
    LET real == RealDst(f, src, dst) IN
    \E q \in DOMAIN f :
        /\ IsPrefix(src, q) /\ f[q].kind # "absent"
        /\ (real \o SubSeq(q, Len(src) + 1, Len(q))) \notin DOMAIN f

----------------------------------------------------------------------------
(* models.py: SyncOperation, SyncRequest, SyncResponse *)

SyncOperation == {"create", "update", "delete", "move"}

\* an operation value outside the enum, for the handler's last branch
OtherOperation == "other"

\* hashlib.sha256(content).hexdigest(): distinct contents have distinct digests
NoChecksum == -1
Digest(c) == 1000 + 7 * c

SyncRequest(sender, target_path, operation, content, old_path, checksum) ==
    [sender |-> sender, target_path |-> target_path, operation |-> operation,
     content |-> content, old_path |-> old_path, checksum |-> checksum]

NoErrorCode == "null"

SyncResponse(success, message, error_code) ==
    [success |-> success, message |-> message, error_code |-> error_code]

\* before the first request
NoRequest == SyncRequest("", NoPath, "none", NoContent, NoPath, NoChecksum)
NoResponse == SyncResponse(FALSE, "", "none")

----------------------------------------------------------------------------
(* client.py: validate_sync_permissions *)

PermissionKinds == {"write", "admin"}

\* the permission collaborator's answer for one sender and path: the kinds it
\* allows, or a failure of the check itself
PermAnswers ==
    {[raises |-> TRUE, allowed |-> {}]} \cup
    {[raises |-> FALSE, allowed |-> k] : k \in SUBSET PermissionKinds}

\* mutant: every operation asks for write only
permission_map_all_write(operation) == "write"

permission_map(operation) ==
    CASE operation = "create" -> "write"
      [] operation = "update" -> "write"
      [] operation = "delete" -> "admin"
      [] operation = "move" -> "admin"
      [] OTHER -> "write"

\* full_path = base_path / target_path: the path check_permission is asked about
full_path(target_path) == Join(base_path, target_path)

validate_sync_permissions(answer, operation) ==
    IF answer.raises THEN FALSE
    ELSE permission_map(operation) \in answer.allowed

----------------------------------------------------------------------------
(* server.py: PrioritySyncServer *)

\* what a block of the handler ends with: a returned response or a raised
\* exception, and the tree as the block left it
Return(resp, f) == [raised |-> FALSE, response |-> resp, fs |-> f]
Raise(f) == [raised |-> TRUE, response |-> NoResponse, fs |-> f]

\* mutant: the try block is missing, the exception goes on
CatchNothing(r, message, code) == r

\* mutant: every except block answers with the code of the outermost one
CatchAsSyncError(r, message, code) ==
    IF r.raised THEN Return(SyncResponse(FALSE, "Sync failed", "SYNC_ERROR"), r.fs) ELSE r

\* try: ... except Exception as e: return SyncResponse(success=False, error_code=code)
Catch(r, message, code) ==
    IF r.raised THEN Return(SyncResponse(FALSE, message, code), r.fs) ELSE r

\* mutant: no check for an existing target, the content is written over it
handle_create_overwrite(f, req, target_path) ==
    Catch(
        LET m == MkdirParents(f, Parent(target_path)) IN
        IF m.raised THEN Raise(m.fs)
        ELSE LET w == IF req.content # NoContent
                      THEN WriteBytes(m.fs, target_path, req.content)
                      ELSE Touch(m.fs, target_path) IN
             IF w.raised THEN Raise(w.fs)
             ELSE Return(SyncResponse(TRUE, "Created", NoErrorCode), w.fs),
        "Create failed", "CREATE_ERROR")

handle_create(f, req, target_path) ==
    Catch(
        LET m == MkdirParents(f, Parent(target_path)) IN
        IF m.raised THEN Raise(m.fs)
        ELSE IF PathExists(m.fs, target_path)
        THEN Return(SyncResponse(FALSE, "File already exists", "FILE_EXISTS"), m.fs)
        ELSE LET w == IF req.content # NoContent
                      THEN WriteBytes(m.fs, target_path, req.content)
                      ELSE Touch(m.fs, target_path) IN
             IF w.raised THEN Raise(w.fs)
             ELSE Return(SyncResponse(TRUE, "Created", NoErrorCode), w.fs),
        "Create failed", "CREATE_ERROR")

\* mutant: no check for a missing target, the update creates the file
handle_update_upsert(f, req, target_path) ==
    Catch(
        LET w == IF req.content # NoContent
                 THEN WriteBytes(f, target_path, req.content)
                 ELSE [raised |-> FALSE, fs |-> f] IN
        IF w.raised THEN Raise(w.fs)
        ELSE Return(SyncResponse(TRUE, "Updated", NoErrorCode), w.fs),
        "Update failed", "UPDATE_ERROR")

handle_update(f, req, target_path) ==
    Catch(
        IF ~PathExists(f, target_path)
        THEN Return(SyncResponse(FALSE, "File not found", "FILE_NOT_FOUND"), f)
        ELSE LET w == IF req.content # NoContent
                      THEN WriteBytes(f, target_path, req.content)
                      ELSE [raised |-> FALSE, fs |-> f] IN
             IF w.raised THEN Raise(w.fs)
             ELSE Return(SyncResponse(TRUE, "Updated", NoErrorCode), w.fs),
        "Update failed", "UPDATE_ERROR")

\* mutant: a missing target is reported as a failure
handle_delete_strict(f, req, target_path) ==
    Catch(
        IF ~PathExists(f, target_path)
        THEN Return(SyncResponse(FALSE, "File not found", "FILE_NOT_FOUND"), f)
        ELSE LET d == IF PathIsFile(f, target_path) THEN Unlink(f, target_path)
                      ELSE IF PathIsDir(f, target_path) THEN Rmtree(f, target_path)
                      ELSE [raised |-> FALSE, fs |-> f] IN
             IF d.raised THEN Raise(d.fs)
             ELSE Return(SyncResponse(TRUE, "Deleted", NoErrorCode), d.fs),
        "Delete failed", "DELETE_ERROR")

handle_delete(f, req, target_path) ==
    Catch(
        IF ~PathExists(f, target_path)
        THEN Return(SyncResponse(TRUE, "File already deleted", NoErrorCode), f)
        ELSE LET d == IF PathIsFile(f, target_path) THEN Unlink(f, target_path)
                      ELSE IF PathIsDir(f, target_path) THEN Rmtree(f, target_path)
                      ELSE [raised |-> FALSE, fs |-> f] IN
             IF d.raised THEN Raise(d.fs)
             ELSE Return(SyncResponse(TRUE, "Deleted", NoErrorCode), d.fs),
        "Delete failed", "DELETE_ERROR")

handle_move(f, req, target_path) ==
    Catch(
        IF req.old_path = NoPath
        THEN Return(SyncResponse(FALSE, "Old path required for move operation",
                                 "MISSING_OLD_PATH"), f)
        ELSE LET old_path == Join(base_path, req.old_path) IN
             IF ~PathExists(f, old_path)
             THEN Return(SyncResponse(FALSE, "Source file not found", "SOURCE_NOT_FOUND"), f)
             ELSE LET m == MkdirParents(f, Parent(target_path)) IN
                  IF m.raised THEN Raise(m.fs)
                  ELSE LET v == ShutilMove(m.fs, old_path, target_path) IN
                       IF v.raised THEN Raise(v.fs)
                       ELSE Return(SyncResponse(TRUE, "Moved", NoErrorCode), v.fs),
        "Move failed", "MOVE_ERROR")

handle_sync_request(f, req, answer) ==
    Catch(
        IF ~validate_sync_permissions(answer, req.operation)
        THEN Return(SyncResponse(FALSE, "Permission denied", "PERMISSION_DENIED"), f)
        ELSE LET target_path == Join(base_path, req.target_path) IN
             CASE req.operation = "create" -> handle_create(f, req, target_path)
               [] req.operation = "update" -> handle_update(f, req, target_path)
               [] req.operation = "delete" -> handle_delete(f, req, target_path)
               [] req.operation = "move" -> handle_move(f, req, target_path)
               [] OTHER -> Return(SyncResponse(FALSE, "Unknown operation",
                                               "UNKNOWN_OPERATION"), f),
        "Sync failed", "SYNC_ERROR")

\* the envelopes a peer may send: content only with create and update, a
\* previous path only with move
RequestContents == {NoContent} \cup 1..MaxContent

Requests ==
    {SyncRequest(s, t, op, c, NoPath, IF c = NoContent THEN NoChecksum ELSE Digest(c)) :
        s \in Senders, t \in RelPaths, op \in {"create", "update"}, c \in RequestContents}
    \cup {SyncRequest(s, t, op, NoContent, NoPath, NoChecksum) :
        s \in Senders, t \in RelPaths, op \in {"delete", OtherOperation}}
    \cup {SyncRequest(s, t, "move", NoContent, o, NoChecksum) :
        s \in Senders, t \in RelPaths, o \in RelPaths \cup {NoPath}}

\* a move whose result has an entry at a path the model does not keep is left out
InModel(f, req) ==
    (req.operation = "move" /\ req.old_path # NoPath
        /\ PathExists(f, Join(base_path, req.old_path)))
    => LET m == MkdirParents(f, Parent(Join(base_path, req.target_path))) IN
       ~MoveLeavesModel(m.fs, Join(base_path, req.old_path), Join(base_path, req.target_path))

\* the transport hands one decoded envelope to the /sync handler
SyncHandlerOf(requests) ==
    \E req \in requests, answer \in PermAnswers :
        /\ InModel(tree, req)
        /\ LET r == handle_sync_request(tree, req, answer) IN
            /\ treeBefore' = tree
            /\ request' = req
            /\ grants' = answer
            /\ escaped' = r.raised
            /\ response' = r.response
            /\ tree' = r.fs
            /\ UNCHANGED watchVars
        /\ UNCHANGED storeVars
        /\ UNCHANGED appVars
        /\ UNCHANGED raceVars
        /\ UNCHANGED echoVars

SyncHandler == SyncHandlerOf(Requests)

----------------------------------------------------------------------------
(* models.py: SyncPriority, SyncPriorityRule, SyncPriorityConfig; api.py: load_sync_priority *)

Wildcard == "*"

AllOperations == <<"create", "update", "delete", "move">>

SyncPriorityRule(users, priority, operations) ==
    [users |-> users, priority |-> priority, operations |-> operations]

Range(seq) == {seq[i] : i \in DOMAIN seq}

\* the sidecar file of a path: missing, unparsable, or a rule list
NoSidecar == [state |-> "missing", rules |-> <<>>]
CorruptSidecar == [state |-> "corrupt", rules |-> <<>>]
SidecarWith(rules) == [state |-> "parsed", rules |-> rules]

\* load_sync_priority: None for a missing or unparsable sidecar
NoConfig == [loaded |-> FALSE, rules |-> <<>>]

load_sync_priority(sidecars, file_path) ==
    IF file_path \notin DOMAIN sidecars \/ sidecars[file_path].state = "missing"
    THEN NoConfig
    ELSE IF sidecars[file_path].state = "corrupt"
    THEN NoConfig
    ELSE [loaded |-> TRUE, rules |-> sidecars[file_path].rules]

----------------------------------------------------------------------------
(* client.py: send_instant_sync *)

\* how the transport ends one call: a response with success=true, a response
\* with success=false, or an exception (future.wait timing out, rpc.send
\* failing, raise_for_status on a non-success status)
Outcomes == {"success", "rejected", "raised"}

\* what send_instant_sync returns: the decoded SyncResponse, or None
Returned(outcome) == IF outcome = "raised" THEN "None" ELSE "SyncResponse"

\* one call of send_instant_sync: the envelope it built and how it ended
send_instant_sync(f, target_user, file_path, relative_path, operation, old_path, outcome) ==
    LET readsFile == operation \in {"create", "update"} /\ PathIsFile(f, file_path)
        content == IF readsFile THEN f[file_path].content ELSE NoContent
        checksum == IF readsFile THEN Digest(content) ELSE NoChecksum
    IN [target_user |-> target_user,
        request |-> SyncRequest(Self, relative_path, operation, content, old_path, checksum),
        outcome |-> outcome,
        returned |-> Returned(outcome)]

----------------------------------------------------------------------------
(* watcher.py: SyncPriorityHandler *)

\* FileWatcher(watch_path, client_email): the datasite directory
watch_path == BasePathOf(Self)
client_email == Self

\* names the handler ignores: a sidecar, a dotfile, a temporary file
SidecarNames == {"notes.txt.syncpriority.yaml"}
DotNames == {".notes.txt.swp"}
TempNames == {"notes.tmp"}

should_ignore(file_path) ==
    \/ Name(file_path) \in SidecarNames
    \/ Name(file_path) \in DotNames
    \/ Name(file_path) \in TempNames

\* path.relative_to(self.base_path): raises for a path outside base_path
IsUnder(file_path, base) == IsPrefix(base, file_path)
RelativeTo(file_path, base) == SubSeq(file_path, Len(base) + 1, Len(file_path))

\* mutant: the new checksum is not stored
content_changed_no_store(checksums, f, file_path) ==
    IF ~PathIsFile(f, file_path)
    THEN [changed |-> TRUE, checksums |-> checksums]
    ELSE [changed |-> checksums[file_path] # Digest(f[file_path].content),
          checksums |-> checksums]

\* _content_changed: the verdict and the cache afterwards
content_changed(checksums, f, file_path) ==
    IF ~PathIsFile(f, file_path)
    THEN [changed |-> TRUE, checksums |-> checksums]       \* open() raised
    ELSE LET new_checksum == Digest(f[file_path].content)
             old_checksum == checksums[file_path]
         IN IF old_checksum # new_checksum
            THEN [changed |-> TRUE,
                  checksums |-> [checksums EXCEPT ![file_path] = new_checksum]]
            ELSE [changed |-> FALSE, checksums |-> checksums]

\* mutant: the priority of a rule is not looked at
RECURSIVE InstantUsers_any_priority(_, _)
InstantUsers_any_priority(rules, operation) ==
    IF rules = <<>> THEN <<>>
    ELSE LET rule == Head(rules) IN
         (IF operation \in Range(rule.operations) THEN rule.users ELSE <<>>)
         \o InstantUsers_any_priority(Tail(rules), operation)

\* instant_users: the users of every instant rule naming the operation, in rule order
RECURSIVE InstantUsers(_, _)
InstantUsers(rules, operation) ==
    IF rules = <<>> THEN <<>>
    ELSE LET rule == Head(rules) IN
         (IF rule.priority = "instant" /\ operation \in Range(rule.operations)
          THEN rule.users ELSE <<>>)
         \o InstantUsers(Tail(rules), operation)

\* the order in which a set is iterated
RECURSIVE SeqOfSet(_)
SeqOfSet(S) ==
    IF S = {} THEN <<>>
    ELSE LET x == CHOOSE y \in S : TRUE IN <<x>> \o SeqOfSet(S \ {x})

\* mutant: the list is used as it is, a user named by two rules stays twice
unique_users_list(instant_users) ==
    SelectSeq(instant_users, LAMBDA u : u # Wildcard)

\* mutant: the wildcard stays in the set like any user
unique_users_keep_wildcard(instant_users) == SeqOfSet(Range(instant_users))

\* unique_users: duplicates removed, the wildcard dropped
unique_users(instant_users) == SeqOfSet(Range(instant_users) \ {Wildcard})

OutcomeFor(outcomes, user) ==
    IF user \in DOMAIN outcomes THEN outcomes[user] ELSE "success"

\* mutant: a call that did not end in success is made once more
RECURSIVE SendLoop_retry(_, _, _, _, _, _, _)
SendLoop_retry(users, f, file_path, relative_path, operation, old_path, outcomes) ==
    IF users = <<>> THEN <<>>
    ELSE LET call == send_instant_sync(f, Head(users), file_path, relative_path, operation,
                                       old_path, OutcomeFor(outcomes, Head(users)))
         IN (IF Head(users) = client_email THEN <<>>
             ELSE IF call.outcome = "success" THEN <<call>>
             ELSE <<call, call>>)
            \o SendLoop_retry(Tail(users), f, file_path, relative_path, operation,
                              old_path, outcomes)

\* mutant: a call that raises ends the loop
RECURSIVE SendLoop_abort(_, _, _, _, _, _, _)
SendLoop_abort(users, f, file_path, relative_path, operation, old_path, outcomes) ==
    IF users = <<>> THEN <<>>
    ELSE LET call == send_instant_sync(f, Head(users), file_path, relative_path, operation,
                                       old_path, OutcomeFor(outcomes, Head(users)))
         IN IF Head(users) = client_email
            THEN SendLoop_abort(Tail(users), f, file_path, relative_path, operation,
                                old_path, outcomes)
            ELSE IF call.outcome = "raised" THEN <<call>>
            ELSE <<call>> \o SendLoop_abort(Tail(users), f, file_path, relative_path,
                                            operation, old_path, outcomes)

\* mutant: the local identity is called like any other user
RECURSIVE SendLoop_self(_, _, _, _, _, _, _)
SendLoop_self(users, f, file_path, relative_path, operation, old_path, outcomes) ==
    IF users = <<>> THEN <<>>
    ELSE <<send_instant_sync(f, Head(users), file_path, relative_path, operation,
                             old_path, OutcomeFor(outcomes, Head(users)))>>
         \o SendLoop_self(Tail(users), f, file_path, relative_path, operation,
                          old_path, outcomes)

\* for user in unique_users: if user != self.client_email: send_instant_sync(...)
RECURSIVE SendLoop(_, _, _, _, _, _, _)
SendLoop(users, f, file_path, relative_path, operation, old_path, outcomes) ==
    IF users = <<>> THEN <<>>
    ELSE (IF Head(users) # client_email
          THEN <<send_instant_sync(f, Head(users), file_path, relative_path, operation,
                                   old_path, OutcomeFor(outcomes, Head(users)))>>
          ELSE <<>>)
         \o SendLoop(Tail(users), f, file_path, relative_path, operation, old_path, outcomes)

\* _handle_sync_event: the calls of send_instant_sync it makes
handle_sync_event(sidecars, f, file_path, operation, old_path, outcomes) ==
    IF ~IsUnder(file_path, watch_path) THEN <<>>                 \* relative_to raised
    ELSE LET relative_path == RelativeTo(file_path, watch_path)
             config == load_sync_priority(sidecars, file_path)
         IN IF ~config.loaded THEN <<>>
            ELSE LET instant_users == InstantUsers(config.rules, operation) IN
                 IF instant_users = <<>> THEN <<>>
                 ELSE SendLoop(unique_users(instant_users), f, file_path, relative_path,
                               operation, old_path, outcomes)

\* the peers _handle_sync_event will call for an event
Recipients(sidecars, file_path, operation) ==
    LET config == load_sync_priority(sidecars, file_path) IN
    IF config.loaded /\ IsUnder(file_path, watch_path)
    THEN Range(InstantUsers(config.rules, operation)) \ {Wildcard, client_email}
    ELSE {}

\* the try body of _handle_sync_event raises: relative_to, for a path that is
\* not below base_path (load_sync_priority and send_instant_sync catch their own)
sync_event_raises(file_path) == ~IsUnder(file_path, watch_path)

\* mutant: the exception leaves _handle_sync_event
except_reraise(raised) == raised

\* except Exception as e: print(...): TRUE when the exception leaves the handler
except_log(raised) == FALSE

\* an on_* handler that called _handle_sync_event raises into the observer thread
handler_raised(file_path) == except_log(sync_event_raises(file_path))

\* something went wrong while the event was handled: the path is outside the
\* watch root, the file could not be read, the sidecar is unparsable, or a
\* call to a peer did not end in success
EventFailed(sidecars, file_path, unreadable, calls) ==
    \/ ~IsUnder(file_path, watch_path)
    \/ unreadable
    \/ file_path \in DOMAIN sidecars /\ sidecars[file_path].state = "corrupt"
    \/ \E i \in DOMAIN calls : calls[i].outcome # "success"

\* watchdog's FileSystemEvent
FileSystemEvent(kind, src_path, dest_path, is_directory) ==
    [kind |-> kind, src_path |-> src_path, dest_path |-> dest_path,
     is_directory |-> is_directory]

NoEvent == FileSystemEvent("none", NoPath, NoPath, FALSE)

\* what the handler did with an event: whether it reached _handle_sync_event,
\* with which operation, and the cache entry it found for the path
Handled(called, operation, old_checksum) ==
    [called |-> called, operation |-> operation, old_checksum |-> old_checksum]

NotHandled == Handled(FALSE, "none", NoChecksum)

\* the files the user edits below watch_path, and the paths events name
LocalFiles == {Join(watch_path, <<"notes.txt">>)}
IgnoredPaths ==
    {Join(watch_path, <<n>>) : n \in SidecarNames \cup DotNames \cup TempNames}
\* a path that is not below the handler's base_path
OutsidePaths == {<<"/", "tmp", "notes.txt">>}
EventPaths == LocalFiles \cup IgnoredPaths \cup OutsidePaths

\* a directory event is delivered for a watched path only
EventFlags(p) == IF p \in LocalFiles THEN BOOLEAN ELSE {FALSE}
MovePairs ==
    {<<Join(watch_path, <<"docs", "notes.txt">>), Join(watch_path, <<"notes.txt">>)>>,
     <<Join(watch_path, <<"notes.txt">>), Join(watch_path, <<"docs", "notes.txt">>)>>,
     <<Join(watch_path, <<".notes.txt.swp">>), Join(watch_path, <<"notes.txt">>)>>,
     <<Join(watch_path, <<"notes.txt">>), Join(watch_path, <<"notes.tmp">>)>>}

CachedFor(checksums, file_path) ==
    IF file_path \in DOMAIN checksums THEN checksums[file_path] ELSE NoChecksum

\* what a handler did with one event: the record of it, the cache it leaves,
\* the send_instant_sync calls it made, the path it gave to
\* _handle_sync_event, and whether it could not read the file
EventResult(how, checksums, calls, file_path, unreadable) ==
    [handled |-> how, checksums |-> checksums, sent |-> calls, path |-> file_path,
     unreadable |-> unreadable]

\* the handler returns without touching anything
Dropped(checksums) == EventResult(NotHandled, checksums, <<>>, NoPath, FALSE)

\* on_created on the cache, the sidecars and the tree as they are
OnCreated(event, checksums, sidecars, f, outcomes) ==
    IF event.is_directory \/ should_ignore(event.src_path)
    THEN Dropped(checksums)
    ELSE EventResult(Handled(TRUE, "create", CachedFor(checksums, event.src_path)), checksums,
                     handle_sync_event(sidecars, f, event.src_path, "create", NoPath, outcomes),
                     event.src_path, FALSE)

\* on_modified
OnModified(event, checksums, sidecars, f, outcomes) ==
    IF event.is_directory \/ should_ignore(event.src_path)
    THEN Dropped(checksums)
    ELSE LET c == content_changed(checksums, f, event.src_path) IN
         EventResult(Handled(c.changed, IF c.changed THEN "update" ELSE "none",
                             CachedFor(checksums, event.src_path)),
                     c.checksums,
                     IF c.changed
                     THEN handle_sync_event(sidecars, f, event.src_path, "update", NoPath,
                                            outcomes)
                     ELSE <<>>,
                     event.src_path, ~PathIsFile(f, event.src_path))

\* on_deleted
OnDeleted(event, checksums, sidecars, f, outcomes) ==
    IF should_ignore(event.src_path)
    THEN Dropped(checksums)
    ELSE EventResult(Handled(TRUE, "delete", CachedFor(checksums, event.src_path)),
                     [q \in DOMAIN checksums |->
                        IF q = event.src_path THEN NoChecksum ELSE checksums[q]],
                     handle_sync_event(sidecars, f, event.src_path, "delete", NoPath, outcomes),
                     event.src_path, FALSE)

\* on_moved
OnMoved(event, checksums, sidecars, f, outcomes) ==
    IF should_ignore(event.src_path) \/ should_ignore(event.dest_path)
    THEN Dropped(checksums)
    ELSE EventResult(Handled(TRUE, "move", CachedFor(checksums, event.dest_path)), checksums,
                     handle_sync_event(sidecars, f, event.dest_path, "move", event.src_path,
                                       outcomes),
                     event.dest_path, FALSE)

\* the observer thread ran a handler for the event; it runs from
\* observer.start() until it has seen the stop flag
Delivered(event, r) ==
    /\ observer_thread \in {"running", "stopping"}
    /\ lastEvent' = event
    /\ handled' = r.handled
    /\ sent' = r.sent
    /\ file_checksums' = r.checksums
    /\ IF r.handled.called
       THEN /\ observer_alive' = ~handler_raised(r.path)
            /\ failed_before' =
                (failed_before \/ EventFailed(sidecar, r.path, r.unreadable, r.sent))
       ELSE UNCHANGED <<observer_alive, failed_before>>
    /\ UNCHANGED sidecar
    /\ UNCHANGED recvVars
    /\ UNCHANGED storeVars
    /\ UNCHANGED appVars
    /\ UNCHANGED raceVars
    /\ UNCHANGED echoVars

on_created ==
    /\ observer_alive
    /\ \E p \in EventPaths : \E d \in EventFlags(p) :
        \E outcomes \in [Recipients(sidecar, p, "create") -> Outcomes] :
            LET event == FileSystemEvent("created", p, NoPath, d) IN
            Delivered(event, OnCreated(event, file_checksums, sidecar, tree, outcomes))

on_modified ==
    /\ observer_alive
    /\ \E p \in EventPaths : \E d \in EventFlags(p) :
        \E outcomes \in [Recipients(sidecar, p, "update") -> Outcomes] :
            LET event == FileSystemEvent("modified", p, NoPath, d) IN
            Delivered(event, OnModified(event, file_checksums, sidecar, tree, outcomes))

on_deleted ==
    /\ observer_alive
    /\ \E p \in EventPaths :
        \E outcomes \in [Recipients(sidecar, p, "delete") -> Outcomes] :
            LET event == FileSystemEvent("deleted", p, NoPath, FALSE) IN
            Delivered(event, OnDeleted(event, file_checksums, sidecar, tree, outcomes))

on_moved ==
    /\ observer_alive
    /\ \E pair \in MovePairs :
        \E outcomes \in [Recipients(sidecar, pair[2], "move") -> Outcomes] :
            LET event == FileSystemEvent("moved", pair[1], pair[2], FALSE) IN
            Delivered(event, OnMoved(event, file_checksums, sidecar, tree, outcomes))

\* the user writes or removes a watched file; lastEvent, handled and sent
\* describe a handler run on the tree as it is, so an edit clears them
LocalWriteTo(paths) ==
    \E p \in paths, c \in Contents :
        /\ ~WriteBytes(tree, p, c).raised
        /\ tree' = WriteBytes(tree, p, c).fs
        /\ lastEvent' = NoEvent
        /\ handled' = NotHandled
        /\ sent' = <<>>
        /\ UNCHANGED <<treeBefore, request, grants, response, escaped>>
        /\ UNCHANGED <<sidecar, file_checksums, observer_alive, failed_before>>
        /\ UNCHANGED storeVars
        /\ UNCHANGED appVars
        /\ UNCHANGED raceVars
        /\ UNCHANGED echoVars

LocalWrite == LocalWriteTo(LocalFiles)

LocalRemoveOf(paths) ==
    \E p \in paths :
        /\ PathIsFile(tree, p)
        /\ tree' = Unlink(tree, p).fs
        /\ lastEvent' = NoEvent
        /\ handled' = NotHandled
        /\ sent' = <<>>
        /\ UNCHANGED <<treeBefore, request, grants, response, escaped>>
        /\ UNCHANGED <<sidecar, file_checksums, observer_alive, failed_before>>
        /\ UNCHANGED storeVars
        /\ UNCHANGED appVars
        /\ UNCHANGED raceVars
        /\ UNCHANGED echoVars

LocalRemove == LocalRemoveOf(LocalFiles)

\* an optional argument: None, or a value
None == [given |-> FALSE, value |-> <<>>]
Some(v) == [given |-> TRUE, value |-> v]

\* a call of the api: the function, its arguments (users, priority and
\* operations of set and remove, the user of get in users, the rules of the
\* config of save in rules), how the filesystem behaved, and what the call
\* returned (for load the rules of the returned config in rules)
ApiCall(op, file_path, users, priority, operations, rules, fs, result) ==
    [op |-> op, file_path |-> file_path, users |-> users, priority |-> priority,
     operations |-> operations, rules |-> rules, fs |-> fs, result |-> result]

NoCall == ApiCall("none", NoPath, None, "none", None, <<>>, "ok", "none")

StoreIdle ==
    /\ api_call = NoCall
    /\ sidecarBefore = sidecar
    /\ rules_api_only = (sidecar[Join(BasePathOf(Self), <<"notes.txt">>)] = NoSidecar)

\* the rules a sidecar of the watched file may hold when the watcher starts
InitRules ==
    {SyncPriorityRule(<<"peer-b">>, "instant", <<"create", "update">>),
     SyncPriorityRule(<<"peer-b", "peer-c">>, "instant", <<"update", "delete", "move">>),
     SyncPriorityRule(<<Wildcard, Self, "peer-c">>, "instant", AllOperations),
     SyncPriorityRule(<<"peer-c">>, "normal", AllOperations)}

\* the lists of at most n different elements of S
RECURSIVE SeqsUpTo(_, _)
SeqsUpTo(S, n) ==
    IF n = 0 THEN {<<>>}
    ELSE SeqsUpTo(S, n - 1) \cup
         {<<pair[1]>> \o pair[2] :
            pair \in {q \in S \X SeqsUpTo(S, n - 1) :
                        Len(q[2]) = n - 1 /\ q[1] \notin Range(q[2])}}

\* a rule for everybody, and the sidecars that hold it first
WildcardRule == SyncPriorityRule(<<Wildcard>>, "instant", AllOperations)
WildcardSidecars ==
    {SidecarWith(<<WildcardRule>>),
     SidecarWith(<<WildcardRule, SyncPriorityRule(<<"peer-b">>, "instant", <<"create", "update">>)>>)}

InitSidecars ==
    {NoSidecar, CorruptSidecar} \cup {SidecarWith(r) : r \in SeqsUpTo(InitRules, MaxRules)}
    \cup WildcardSidecars

\* the app after start(): the observer thread runs, the main thread sleeps
AppRunning ==
    /\ main_pc = "waiting"
    /\ observer_thread = "running"

\* the threads that call set_sync_priority, and a call: where the thread is
\* in it, its arguments, the rules it is to save and what it returned
Writers == {"w1", "w2"}
SetCall(pc, users, priority, rules, result) ==
    [pc |-> pc, users |-> users, priority |-> priority, rules |-> rules, result |-> result]
NoSetCall == SetCall("idle", <<>>, "none", <<>>, "none")

\* no thread is in a set_sync_priority call
RaceIdle == set_calls = [w \in Writers |-> NoSetCall]

\* the two peers of an exchange and what the model keeps of each
EchoPeers == {"peer-a", "peer-b"}
OtherPeer(p) == IF p = "peer-a" THEN "peer-b" ELSE "peer-a"
EchoPeer(file, checksum, events, inbox, writing) ==
    [file |-> file, checksum |-> checksum, events |-> events, inbox |-> inbox,
     writing |-> writing]

\* both peers without the file, nothing cached, queued or received
EchoIdle == peers = [p \in EchoPeers |-> EchoPeer(Absent, NoChecksum, <<>>, NoRequest, FALSE)]

WatchIdle ==
    /\ file_checksums = [p \in FsPaths |-> NoChecksum]
    /\ lastEvent = NoEvent
    /\ handled = NotHandled
    /\ sent = <<>>
    /\ observer_alive = TRUE
    /\ failed_before = FALSE

RecvIdle ==
    /\ tree = [p \in FsPaths |-> Absent]
    /\ treeBefore = tree
    /\ request = NoRequest
    /\ grants = [raises |-> FALSE, allowed |-> {}]
    /\ response = NoResponse
    /\ escaped = FALSE

InitWatch ==
    /\ RecvIdle
    /\ WatchIdle
    /\ \E sc \in InitSidecars :
        sidecar = [p \in FsPaths |-> IF p \in LocalFiles THEN sc ELSE NoSidecar]
    /\ StoreIdle
    /\ AppRunning
    /\ RaceIdle
    /\ EchoIdle

NextWatch ==
    \/ on_created
    \/ on_modified
    \/ on_deleted
    \/ on_moved
    \/ LocalWrite
    \/ LocalRemove

SpecWatch == InitWatch /\ [][NextWatch]_vars

TypeOKWatch ==
    /\ tree \in [FsPaths -> Entries]
    /\ WellFormed(tree)
    /\ file_checksums \in [FsPaths -> {NoChecksum} \cup {Digest(c) : c \in Contents}]
    /\ \A i \in DOMAIN sent : sent[i].target_user \in Peers

InitRecv ==
    /\ RecvIdle
    /\ WatchIdle
    /\ sidecar = [p \in FsPaths |-> NoSidecar]
    /\ StoreIdle
    /\ AppRunning
    /\ RaceIdle
    /\ EchoIdle

NextRecv == SyncHandler

SpecRecv == InitRecv /\ [][NextRecv]_vars

TypeOKRecv ==
    /\ tree \in [FsPaths -> Entries]
    /\ WellFormed(tree)
    /\ request \in Requests \cup {NoRequest}


-----------------------------------------------------------------------------
(* server.py: the receiver and a datasite next to its own *)

\* target_path and old_path are plain strings of the envelope.  The copy of
\* another peer's datasite lies next to the receiver's own below
\* ~/SyftBox/datasites, and an envelope can name a file in it by its
\* absolute path.
OtherDatasite == BasePathOf("peer-b")
OutsideFile == Join(OtherDatasite, <<"notes.txt">>)
InsideFile == Join(base_path, <<"notes.txt">>)
EscapeFsPaths == {InsideFile, OtherDatasite, OutsideFile}

\* the paths an envelope names: relative, or absolute
EnvelopePaths == {<<"notes.txt">>, OutsideFile}

EscapeRequests ==
    {SyncRequest(s, t, op, c, NoPath, Digest(c)) :
        s \in Senders, t \in EnvelopePaths, op \in {"create", "update"}, c \in 1..MaxContent}
    \cup {SyncRequest(s, t, "delete", NoContent, NoPath, NoChecksum) :
        s \in Senders, t \in EnvelopePaths}
    \cup {SyncRequest(s, t, "move", NoContent, o, NoChecksum) :
        s \in Senders, t \in EnvelopePaths, o \in EnvelopePaths}

EscapeHandler == SyncHandlerOf(EscapeRequests)

\* the other datasite is there or not, with the file or without it
InitEscape ==
    /\ \E there \in BOOLEAN : \E entry \in {Absent} \cup {File(c) : c \in Contents} :
        /\ (entry # Absent => there)
        /\ tree = [p \in EscapeFsPaths |->
                    IF p = OtherDatasite THEN (IF there THEN Dir ELSE Absent)
                    ELSE IF p = OutsideFile THEN entry
                    ELSE Absent]
    /\ treeBefore = tree
    /\ request = NoRequest
    /\ grants = [raises |-> FALSE, allowed |-> {}]
    /\ response = NoResponse
    /\ escaped = FALSE
    /\ WatchIdle
    /\ sidecar = [p \in FsPaths |-> NoSidecar]
    /\ StoreIdle
    /\ AppRunning
    /\ RaceIdle
    /\ EchoIdle

NextEscape == EscapeHandler

SpecEscape == InitEscape /\ [][NextEscape]_vars

TypeOKEscape ==
    /\ tree \in [EscapeFsPaths -> Entries]
    /\ WellFormed(tree)
    /\ request \in EscapeRequests \cup {NoRequest}
----------------------------------------------------------------------------
(* watcher.py: the handler over a folder and a file in it *)

DocsDir == Join(watch_path, <<"docs">>)
DocsFile == Join(watch_path, <<"docs", "notes.txt">>)

\* both paths have a sidecar with an instant rule for peer-b
DocsRule == SyncPriorityRule(<<"peer-b">>, "instant", AllOperations)

\* the events watchdog delivers for the folder and the file
DocsEvents(kind) ==
    {FileSystemEvent(kind, DocsDir, NoPath, TRUE), FileSystemEvent(kind, DocsFile, NoPath, FALSE)}

docs_created ==
    /\ observer_alive
    /\ \E event \in DocsEvents("created") :
        \E outcomes \in [Recipients(sidecar, event.src_path, "create") -> Outcomes] :
            Delivered(event, OnCreated(event, file_checksums, sidecar, tree, outcomes))

docs_modified ==
    /\ observer_alive
    /\ \E event \in DocsEvents("modified") :
        \E outcomes \in [Recipients(sidecar, event.src_path, "update") -> Outcomes] :
            Delivered(event, OnModified(event, file_checksums, sidecar, tree, outcomes))

docs_deleted ==
    /\ observer_alive
    /\ \E event \in DocsEvents("deleted") :
        \E outcomes \in [Recipients(sidecar, event.src_path, "delete") -> Outcomes] :
            Delivered(event, OnDeleted(event, file_checksums, sidecar, tree, outcomes))

\* the user's edits: the folder is made, the file in it written or removed,
\* the folder removed with what it holds
LocalMkdir ==
    /\ ~PathExists(tree, DocsDir)
    /\ tree' = [tree EXCEPT ![DocsDir] = Dir]
    /\ lastEvent' = NoEvent
    /\ handled' = NotHandled
    /\ sent' = <<>>
    /\ UNCHANGED <<treeBefore, request, grants, response, escaped>>
    /\ UNCHANGED <<sidecar, file_checksums, observer_alive, failed_before>>
    /\ UNCHANGED storeVars
    /\ UNCHANGED appVars
    /\ UNCHANGED raceVars
    /\ UNCHANGED echoVars

LocalRmtree ==
    /\ PathIsDir(tree, DocsDir)
    /\ tree' = Rmtree(tree, DocsDir).fs
    /\ lastEvent' = NoEvent
    /\ handled' = NotHandled
    /\ sent' = <<>>
    /\ UNCHANGED <<treeBefore, request, grants, response, escaped>>
    /\ UNCHANGED <<sidecar, file_checksums, observer_alive, failed_before>>
    /\ UNCHANGED storeVars
    /\ UNCHANGED appVars
    /\ UNCHANGED raceVars
    /\ UNCHANGED echoVars

LocalWriteDocs == LocalWriteTo({DocsFile})
LocalRemoveDocs == LocalRemoveOf({DocsFile})

InitDocs ==
    /\ RecvIdle
    /\ WatchIdle
    /\ sidecar = [p \in FsPaths |->
                    IF p \in {DocsDir, DocsFile} THEN SidecarWith(<<DocsRule>>) ELSE NoSidecar]
    /\ StoreIdle
    /\ AppRunning
    /\ RaceIdle
    /\ EchoIdle

NextDocs ==
    \/ docs_created
    \/ docs_modified
    \/ docs_deleted
    \/ LocalMkdir
    \/ LocalWriteDocs
    \/ LocalRemoveDocs
    \/ LocalRmtree

SpecDocs == InitDocs /\ [][NextDocs]_vars

-----------------------------------------------------------------------------
(* main.py: starting and stopping the app *)

\* main_pc:
\*   "start"    app.start() runs, up to the test of the watch path
\*   "created"  self.watcher is assigned, self.watcher.start() has not yet
\*              started the observer thread
\*   "waiting"  the loop on self.running
\*   "stop"     signal_handler runs app.stop(), up to `if self.watcher`
\*   "join"     observer.stop() returned, observer.join() is called
\*   "stopped"  app.stop() returned
\*   "exited"   sys.exit(0)
\*   "raised"   app.stop() raised out of the signal handler
MainPcs == {"start", "created", "waiting", "stop", "join", "stopped", "exited", "raised"}

\* observer_thread: "none" while self.watcher is None, "unstarted" from
\* FileWatcher(...) to observer.start(), "running", "stopping" from
\* observer.stop() until the thread has seen the flag, "ended"
ObserverThreads == {"none", "unstarted", "running", "stopping", "ended"}

AppFrame ==
    /\ UNCHANGED recvVars
    /\ UNCHANGED raceVars
    /\ UNCHANGED echoVars
    /\ UNCHANGED watchVars
    /\ UNCHANGED storeVars
    /\ UNCHANGED <<tree, sidecar>>

\* watch_path.exists(): self.watcher = FileWatcher(watch_path, email)
CreateWatcher ==
    /\ main_pc = "start"
    /\ main_pc' = "created"
    /\ observer_thread' = "unstarted"
    /\ AppFrame

\* the watch path does not exist: self.watcher stays None
NoWatcher ==
    /\ main_pc = "start"
    /\ main_pc' = "waiting"
    /\ UNCHANGED observer_thread
    /\ AppFrame

\* FileWatcher.start: observer.schedule(...); observer.start()
FileWatcher_start ==
    /\ main_pc = "created"
    /\ main_pc' = "waiting"
    /\ observer_thread' = "running"
    /\ AppFrame

\* SIGINT or SIGTERM: the handlers are registered before app.start(), and
\* the handler runs on the main thread wherever that thread is
signal_handler ==
    /\ main_pc \in {"start", "created", "waiting"}
    /\ main_pc' = "stop"
    /\ UNCHANGED observer_thread
    /\ AppFrame

\* PrioritySyncApp.stop up to observer.stop(), which only sets the flag
stop ==
    /\ main_pc = "stop"
    /\ IF observer_thread = "none"
       THEN main_pc' = "stopped" /\ UNCHANGED observer_thread
       ELSE /\ main_pc' = "join"
            /\ observer_thread' =
                   IF observer_thread = "running" THEN "stopping" ELSE observer_thread
    /\ AppFrame

\* the observer thread sees the stop flag and returns from run()
ObserverExit ==
    /\ observer_thread = "stopping"
    /\ observer_thread' = "ended"
    /\ UNCHANGED main_pc
    /\ AppFrame

\* observer.join(): Thread.join raises RuntimeError on a thread that was
\* never started, and returns once a started thread has ended
join ==
    /\ main_pc = "join"
    /\ observer_thread \in {"unstarted", "ended"}
    /\ main_pc' = IF observer_thread = "unstarted" THEN "raised" ELSE "stopped"
    /\ UNCHANGED observer_thread
    /\ AppFrame

\* sys.exit(0) after app.stop() returned
exit ==
    /\ main_pc = "stopped"
    /\ main_pc' = "exited"
    /\ UNCHANGED observer_thread
    /\ AppFrame

InitApp ==
    /\ RecvIdle
    /\ WatchIdle
    /\ sidecar = [p \in FsPaths |->
                    IF p \in LocalFiles THEN SidecarWith(<<WildcardRule>>) ELSE NoSidecar]
    /\ StoreIdle
    /\ main_pc = "start"
    /\ observer_thread = "none"
    /\ RaceIdle
    /\ EchoIdle

NextApp ==
    \/ CreateWatcher
    \/ NoWatcher
    \/ FileWatcher_start
    \/ signal_handler
    \/ stop
    \/ ObserverExit
    \/ join
    \/ exit
    \/ on_created
    \/ on_modified
    \/ on_deleted
    \/ LocalWrite
    \/ LocalRemove

SpecApp == InitApp /\ [][NextApp]_vars

TypeOKApp ==
    /\ main_pc \in MainPcs
    /\ observer_thread \in ObserverThreads

----------------------------------------------------------------------------
(* api.py: the rule store *)

SyncPriority == {"instant", "normal"}

\* config.model_dump(mode='json'): enum members become their values, which
\* are the strings the model already uses for them
model_dump(rules) ==
    [i \in DOMAIN rules |->
        [users |-> rules[i].users, priority |-> rules[i].priority,
         operations |-> rules[i].operations]]

\* a YAML scalar as written: plain or quoted
YamlScalar(style, text) == [style |-> style, text |-> text]

\* a plain scalar cannot start with the alias indicator "*"
NeedsQuotes(text) == text = Wildcard

\* mutant: every string is written plain
represent_str_plain(text) == YamlScalar("plain", text)

\* yaml's representer for str
represent_str(text) ==
    YamlScalar(IF NeedsQuotes(text) THEN "single" ELSE "plain", text)

\* yaml.safe_dump(data, f, default_flow_style=False, sort_keys=False)
safe_dump(data) ==
    [i \in DOMAIN data |->
        [users |-> [j \in DOMAIN data[i].users |-> represent_str(data[i].users[j])],
         priority |-> represent_str(data[i].priority),
         operations |->
            [j \in DOMAIN data[i].operations |-> represent_str(data[i].operations[j])]]]

ScalarParses(sc) == sc.style # "plain" \/ ~NeedsQuotes(sc.text)

\* yaml.safe_load(f): raises on a scalar it cannot scan
safe_load(doc) ==
    IF \A i \in DOMAIN doc :
            /\ \A j \in DOMAIN doc[i].users : ScalarParses(doc[i].users[j])
            /\ ScalarParses(doc[i].priority)
            /\ \A j \in DOMAIN doc[i].operations : ScalarParses(doc[i].operations[j])
    THEN [raised |-> FALSE,
          data |-> [i \in DOMAIN doc |->
                [users |-> [j \in DOMAIN doc[i].users |-> doc[i].users[j].text],
                 priority |-> doc[i].priority.text,
                 operations |->
                    [j \in DOMAIN doc[i].operations |-> doc[i].operations[j].text]]]]
    ELSE [raised |-> TRUE, data |-> <<>>]

\* SyncPriorityConfig(**data): users min_length=1, priority and operations enum values
Validates(data) ==
    \A i \in DOMAIN data :
        /\ Len(data[i].users) >= 1
        /\ data[i].priority \in SyncPriority
        /\ \A j \in DOMAIN data[i].operations : data[i].operations[j] \in SyncOperation

\* what load_sync_priority finds in a sidecar file holding the document
FileWith(doc) ==
    LET loaded == safe_load(doc) IN
    IF ~loaded.raised /\ Validates(loaded.data)
    THEN SidecarWith(loaded.data)
    ELSE CorruptSidecar

\* how the filesystem treats a write or a delete: it works, it fails before
\* the file is touched (mkdir, open or unlink raises), or the write fails
\* after open(path, 'w') has truncated the file
FsModes == {"ok", "open_fails", "write_fails"}

\* save_sync_priority: raises when the filesystem fails
save_sync_priority(sidecars, file_path, rules, fs) ==
    IF fs = "open_fails"
    THEN [raised |-> TRUE, sidecars |-> sidecars]
    ELSE IF fs = "write_fails"
    THEN [raised |-> TRUE, sidecars |-> [sidecars EXCEPT ![file_path] = CorruptSidecar]]
    ELSE [raised |-> FALSE,
          sidecars |-> [sidecars EXCEPT ![file_path] = FileWith(safe_dump(model_dump(rules)))]]

\* mutant: rules are matched by their users list, not by the set of its users
same_users_list(a, b) == a = b

\* set(r.users) != set(users), negated
same_users(a, b) == Range(a) = Range(b)

\* mutant: a rule already stored for the user-set is kept, the new one is not added
set_sync_priority_keep(sidecars, file_path, users, priority, operations, fs) ==
    IF priority \notin SyncPriority \/ users = <<>>
       \/ (operations.given /\ \E j \in DOMAIN operations.value :
                                    operations.value[j] \notin SyncOperation)
    THEN [result |-> "raised", sidecars |-> sidecars]
    ELSE LET ops == IF operations.given THEN operations.value ELSE AllOperations
             config == load_sync_priority(sidecars, file_path)
             rule == SyncPriorityRule(users, priority, ops)
             rules == IF \E i \in DOMAIN config.rules : same_users(config.rules[i].users, users)
                      THEN config.rules
                      ELSE config.rules \o <<rule>>
             saved == save_sync_priority(sidecars, file_path, rules, fs)
         IN [result |-> IF saved.raised THEN "False" ELSE "True",
             sidecars |-> saved.sidecars]

\* set_sync_priority; users is the list after a single string was wrapped
set_sync_priority(sidecars, file_path, users, priority, operations, fs) ==
    IF priority \notin SyncPriority
    THEN [result |-> "raised", sidecars |-> sidecars]          \* SyncPriority(priority)
    ELSE IF operations.given /\ \E j \in DOMAIN operations.value :
                                    operations.value[j] \notin SyncOperation
    THEN [result |-> "raised", sidecars |-> sidecars]          \* SyncOperation(op)
    ELSE IF users = <<>>
    THEN [result |-> "raised", sidecars |-> sidecars]          \* SyncPriorityRule(users=[])
    ELSE LET ops == IF operations.given THEN operations.value ELSE AllOperations
             config == load_sync_priority(sidecars, file_path)
             rule == SyncPriorityRule(users, priority, ops)
             kept == SelectSeq(config.rules, LAMBDA r : ~same_users(r.users, users))
             saved == save_sync_priority(sidecars, file_path, kept \o <<rule>>, fs)
         IN [result |-> IF saved.raised THEN "False" ELSE "True",
             sidecars |-> saved.sidecars]

\* mutant: the last matching rule decides
RECURSIVE get_last_match(_, _)
get_last_match(rules, user) ==
    IF rules = <<>> THEN "normal"
    ELSE LET rule == rules[Len(rules)] IN
         IF user \in Range(rule.users) \/ Wildcard \in Range(rule.users)
         THEN rule.priority
         ELSE get_last_match(SubSeq(rules, 1, Len(rules) - 1), user)

\* for rule in config.rules: if user in rule.users or "*" in rule.users: return rule.priority
RECURSIVE get_first_match(_, _)
get_first_match(rules, user) ==
    IF rules = <<>> THEN "normal"
    ELSE LET rule == Head(rules) IN
         IF user \in Range(rule.users) \/ Wildcard \in Range(rule.users)
         THEN rule.priority
         ELSE get_first_match(Tail(rules), user)

get_sync_priority(sidecars, file_path, user) ==
    LET config == load_sync_priority(sidecars, file_path) IN
    IF ~config.loaded THEN "normal" ELSE get_first_match(config.rules, user)

\* syncpriority_path.unlink() when the file exists
unlink_sidecar(sidecars, file_path, fs) ==
    IF sidecars[file_path].state = "missing"
    THEN [raised |-> FALSE, sidecars |-> sidecars]
    ELSE IF fs # "ok"
    THEN [raised |-> TRUE, sidecars |-> sidecars]
    ELSE [raised |-> FALSE, sidecars |-> [sidecars EXCEPT ![file_path] = NoSidecar]]

\* mutant: a rule that loses a user is dropped whole
remaining_users_none(rule_users, users) ==
    IF \E j \in DOMAIN rule_users : rule_users[j] \in Range(users) THEN <<>> ELSE rule_users

\* remaining_users = [u for u in rule.users if u not in users]
remaining_users(rule_users, users) ==
    SelectSeq(rule_users, LAMBDA u : u \notin Range(users))

\* new_rules: every rule with its remaining users, without the rules left empty
RECURSIVE new_rules(_, _)
new_rules(rules, users) ==
    IF rules = <<>> THEN <<>>
    ELSE LET rule == Head(rules)
             remaining == remaining_users(rule.users, users)
         IN (IF remaining # <<>>
             THEN <<SyncPriorityRule(remaining, rule.priority, rule.operations)>>
             ELSE <<>>)
            \o new_rules(Tail(rules), users)

\* mutant: without users, every sidecar is deleted
remove_all_everywhere(sidecars, file_path, fs) ==
    [raised |-> FALSE, sidecars |-> [q \in DOMAIN sidecars |-> NoSidecar]]

\* remove_sync_priority without users: the sidecar of the path is deleted
remove_all(sidecars, file_path, fs) == unlink_sidecar(sidecars, file_path, fs)

\* mutant: the rules left are saved also when none is left
remove_sync_priority_save_empty(sidecars, file_path, users, fs) ==
    IF ~users.given
    THEN LET removed == remove_all(sidecars, file_path, fs) IN
         [result |-> IF removed.raised THEN "False" ELSE "True", sidecars |-> removed.sidecars]
    ELSE LET config == load_sync_priority(sidecars, file_path) IN
         IF ~config.loaded
         THEN [result |-> "True", sidecars |-> sidecars]
         ELSE LET done == save_sync_priority(sidecars, file_path,
                                             new_rules(config.rules, users.value), fs)
              IN [result |-> IF done.raised THEN "False" ELSE "True",
                  sidecars |-> done.sidecars]

\* remove_sync_priority; users is None or the list after a single string was wrapped
remove_sync_priority(sidecars, file_path, users, fs) ==
    IF ~users.given
    THEN LET removed == remove_all(sidecars, file_path, fs) IN
         [result |-> IF removed.raised THEN "False" ELSE "True", sidecars |-> removed.sidecars]
    ELSE LET config == load_sync_priority(sidecars, file_path) IN
         IF ~config.loaded
         THEN [result |-> "True", sidecars |-> sidecars]
         ELSE LET rules == new_rules(config.rules, users.value)
                  done == IF rules # <<>>
                          THEN save_sync_priority(sidecars, file_path, rules, fs)
                          ELSE unlink_sidecar(sidecars, file_path, fs)
              IN [result |-> IF done.raised THEN "False" ELSE "True",
                  sidecars |-> done.sidecars]

\* the path whose rules the calls manage, and a path whose sidecar they leave alone
StorePaths == {Join(watch_path, <<"notes.txt">>)}
OtherSidecar == SidecarWith(<<SyncPriorityRule(<<Wildcard>>, "normal", AllOperations)>>)

\* the arguments of the calls
UserLists == {<<"peer-b">>, <<"peer-b", "peer-c">>, <<"peer-c", "peer-b">>, <<Wildcard>>}
SetArgs ==
    {<<u, "instant", None>> : u \in UserLists}
    \cup {<<u, "normal", Some(<<"create", "update">>)>> : u \in {<<"peer-b">>, <<Wildcard>>}}
    \cup {<<<<>>, "instant", None>>,
          <<<<"peer-b">>, "urgent", None>>,
          <<<<"peer-b">>, "instant", Some(<<"rename">>)>>}
RemoveArgs == {None, Some(<<"peer-b">>), Some(<<"peer-c">>), Some(<<Wildcard>>)}
Users == {"peer-b", "peer-c", "peer-d"}
SaveConfigs ==
    {<<>>,
     <<SyncPriorityRule(<<Wildcard>>, "normal", <<"create", "update">>),
       SyncPriorityRule(<<"peer-b", "peer-c">>, "instant", AllOperations)>>}

\* the other variables of the model stay as they are
StoreFrame ==
    /\ UNCHANGED recvVars
    /\ UNCHANGED appVars
    /\ UNCHANGED raceVars
    /\ UNCHANGED echoVars
    /\ UNCHANGED <<file_checksums, lastEvent, handled, sent, observer_alive, failed_before>>

CallSet ==
    \E p \in StorePaths, a \in SetArgs, fs \in FsModes :
        LET r == set_sync_priority(sidecar, p, a[1], a[2], a[3], fs) IN
        /\ Len(r.sidecars[p].rules) <= MaxStoreRules
        /\ sidecarBefore' = sidecar
        /\ sidecar' = r.sidecars
        /\ api_call' = ApiCall("set", p, Some(a[1]), a[2], a[3], <<>>, fs, r.result)
        /\ rules_api_only' = (rules_api_only /\ fs = "ok")
        /\ StoreFrame

CallRemove ==
    \E p \in StorePaths, u \in RemoveArgs, fs \in FsModes :
        LET r == remove_sync_priority(sidecar, p, u, fs) IN
        /\ sidecarBefore' = sidecar
        /\ sidecar' = r.sidecars
        /\ api_call' = ApiCall("remove", p, u, "none", None, <<>>, fs, r.result)
        /\ rules_api_only' = (rules_api_only /\ fs = "ok")
        /\ StoreFrame

CallGet ==
    \E p \in StorePaths, u \in Users :
        /\ sidecarBefore' = sidecar
        /\ api_call' = ApiCall("get", p, Some(<<u>>), "none", None, <<>>, "ok",
                               get_sync_priority(sidecar, p, u))
        /\ UNCHANGED <<sidecar, rules_api_only>>
        /\ StoreFrame

CallLoad ==
    \E p \in StorePaths :
        LET config == load_sync_priority(sidecar, p) IN
        /\ sidecarBefore' = sidecar
        /\ api_call' = ApiCall("load", p, None, "none", None, config.rules, "ok",
                               IF config.loaded THEN "SyncPriorityConfig" ELSE "None")
        /\ UNCHANGED <<sidecar, rules_api_only>>
        /\ StoreFrame

CallSave ==
    \E p \in StorePaths, c \in SaveConfigs, fs \in FsModes :
        LET r == save_sync_priority(sidecar, p, c, fs) IN
        /\ sidecarBefore' = sidecar
        /\ sidecar' = r.sidecars
        /\ api_call' = ApiCall("save", p, None, "none", None, c, fs,
                               IF r.raised THEN "raised" ELSE "None")
        /\ rules_api_only' = FALSE
        /\ StoreFrame

InitStore ==
    /\ RecvIdle
    /\ WatchIdle
    /\ \E sc \in {NoSidecar, CorruptSidecar} :
        sidecar = [p \in FsPaths |->
                    IF p \in StorePaths THEN sc
                    ELSE IF p = Join(watch_path, <<"docs">>) THEN OtherSidecar
                    ELSE NoSidecar]
    /\ StoreIdle
    /\ AppRunning
    /\ RaceIdle
    /\ EchoIdle

NextStore ==
    \/ CallSet
    \/ CallRemove
    \/ CallGet
    \/ CallLoad
    \/ CallSave

SpecStore == InitStore /\ [][NextStore]_vars

TypeOKStore ==
    /\ \A p \in FsPaths : sidecar[p].state \in {"missing", "corrupt", "parsed"}
    /\ \A p \in FsPaths : Len(sidecar[p].rules) <= MaxStoreRules
    /\ \A p \in FsPaths : \A i \in DOMAIN sidecar[p].rules :
        /\ sidecar[p].rules[i].users # <<>>
        /\ sidecar[p].rules[i].priority \in SyncPriority
    /\ api_call.result \in {"none", "True", "False", "raised", "None", "SyncPriorityConfig"}
                            \cup SyncPriority


-----------------------------------------------------------------------------
(* api.py: set_sync_priority calls of two threads, a reader and the watcher *)

\* the file whose rules the threads set, and the rule its sidecar starts with
RaceFile == Join(watch_path, <<"notes.txt">>)
RaceRule == SyncPriorityRule(<<"peer-b", "peer-c">>, "instant", AllOperations)
RaceSidecar == SidecarWith(<<RaceRule>>)

\* the users each thread sets a rule for
RaceUsers(w) == IF w = "w1" THEN <<"peer-b">> ELSE <<"peer-c">>

RaceFrame ==
    /\ UNCHANGED recvVars
    /\ UNCHANGED echoVars
    /\ UNCHANGED appVars
    /\ UNCHANGED storeVars
    /\ UNCHANGED <<file_checksums, lastEvent, handled, sent, observer_alive, failed_before>>

\* set_sync_priority up to the save: the arguments are valid, the config is
\* loaded, the rules of the user-set are replaced by the new rule
SetLoad(w) ==
    /\ set_calls[w].pc = "idle"
    /\ \E priority \in SyncPriority :
        LET config == load_sync_priority(sidecar, RaceFile)
            rule == SyncPriorityRule(RaceUsers(w), priority, AllOperations)
            kept == SelectSeq(config.rules, LAMBDA r : ~same_users(r.users, RaceUsers(w)))
        IN set_calls' = [set_calls EXCEPT ![w] =
                SetCall("loaded", RaceUsers(w), priority, kept \o <<rule>>, "none")]
    /\ UNCHANGED sidecar
    /\ RaceFrame

\* save_sync_priority: open(syncpriority_path, 'w') truncates the file; a
\* load of the empty file gets None from yaml and returns None
SetOpen(w) ==
    /\ set_calls[w].pc = "loaded"
    /\ set_calls' = [set_calls EXCEPT ![w].pc = "opened"]
    /\ sidecar' = [sidecar EXCEPT ![RaceFile] = CorruptSidecar]
    /\ RaceFrame

\* save_sync_priority: yaml.safe_dump into the file and its close, then
\* set_sync_priority returns True
SetWrite(w) ==
    /\ set_calls[w].pc = "opened"
    /\ set_calls' = [set_calls EXCEPT ![w].pc = "done", ![w].result = "True"]
    /\ sidecar' = [sidecar EXCEPT
                    ![RaceFile] = FileWith(safe_dump(model_dump(set_calls[w].rules)))]
    /\ RaceFrame

SetSteps == \E w \in Writers : SetLoad(w) \/ SetOpen(w) \/ SetWrite(w)

\* a created event of the file, handled by the observer thread
race_created ==
    /\ observer_alive
    /\ \E outcomes \in [Recipients(sidecar, RaceFile, "create") -> Outcomes] :
        LET event == FileSystemEvent("created", RaceFile, NoPath, FALSE) IN
        Delivered(event, OnCreated(event, file_checksums, sidecar, tree, outcomes))

InitRace ==
    /\ RecvIdle
    /\ WatchIdle
    /\ sidecar = [p \in FsPaths |-> IF p = RaceFile THEN RaceSidecar ELSE NoSidecar]
    /\ StoreIdle
    /\ AppRunning
    /\ RaceIdle
    /\ EchoIdle

NextRace ==
    \/ SetSteps
    \/ CallLoad
    \/ race_created
    \/ LocalWrite

SpecRace == InitRace /\ [][NextRace]_vars

TypeOKRace ==
    /\ \A w \in Writers : set_calls[w].pc \in {"idle", "loaded", "opened", "done"}
    /\ sidecar[RaceFile].state \in {"parsed", "corrupt"}

-----------------------------------------------------------------------------
(* watcher.py and server.py of two peers that sync one file with each other *)

\* Each peer runs a watcher and a receiver over its own datasite; the
\* receiver writes into the tree the watcher observes.  Each peer holds an
\* instant rule for notes.txt that names the other peer for every operation,
\* and the permissions allow every operation.
EchoPath == <<"notes.txt">>

\* the observer's event queue leaves out an event equal to the one queued last
put(events, kind) ==
    IF events # <<>> /\ events[Len(events)] = kind THEN events ELSE Append(events, kind)

\* send_instant_sync of peer p: the file is read when the envelope is built
EchoEnvelope(p, operation) ==
    LET reads == operation \in {"create", "update"} /\ peers[p].file.kind = "file"
        content == IF reads THEN peers[p].file.content ELSE NoContent
    IN SyncRequest(p, EchoPath, operation, content, NoPath,
                   IF reads THEN Digest(content) ELSE NoChecksum)

\* _content_changed of peer p: the verdict and the cached digest afterwards
EchoChanged(p) ==
    IF peers[p].file.kind # "file"
    THEN [changed |-> TRUE, checksum |-> peers[p].checksum]
    ELSE LET new_checksum == Digest(peers[p].file.content) IN
         [changed |-> peers[p].checksum # new_checksum, checksum |-> new_checksum]

\* the observer thread of p runs the handler for its next event; a dispatch
\* is one send_instant_sync to the other peer, which the thread waits for
EchoWatch(p) ==
    LET q == OtherPeer(p) IN
    /\ peers[p].events # <<>>
    /\ peers[q].inbox = NoRequest
    /\ LET kind == Head(peers[p].events)
           cc == EchoChanged(p)
           operation == CASE kind = "created" -> "create"
                          [] kind = "deleted" -> "delete"
                          [] OTHER -> IF cc.changed THEN "update" ELSE "none"
           checksum == CASE kind = "modified" -> cc.checksum
                         [] kind = "deleted" -> NoChecksum
                         [] OTHER -> peers[p].checksum
       IN peers' = [peers EXCEPT
                ![p].events = Tail(peers[p].events),
                ![p].checksum = checksum,
                ![q].inbox = IF operation = "none" THEN NoRequest
                             ELSE EchoEnvelope(p, operation)]

\* the receiver of p handles the request up to the response, or up to
\* open(target_path, 'wb'), which leaves the file empty until f.write
EchoReceive(p) ==
    LET req == peers[p].inbox
        exists == peers[p].file.kind # "absent"
    IN
    /\ req # NoRequest
    /\ ~peers[p].writing
    /\ peers' = [peers EXCEPT ![p] =
        CASE req.operation = "create" /\ exists ->                 \* FILE_EXISTS
                [@ EXCEPT !.inbox = NoRequest]
          [] req.operation = "create" /\ req.content = NoContent ->  \* touch()
                [@ EXCEPT !.file = File(0), !.events = put(@, "created"),
                          !.inbox = NoRequest]
          [] req.operation = "create" ->
                [@ EXCEPT !.file = File(0), !.events = put(@, "created"),
                          !.writing = TRUE]
          [] req.operation = "update" /\ ~exists ->                \* FILE_NOT_FOUND
                [@ EXCEPT !.inbox = NoRequest]
          [] req.operation = "update" /\ req.content = NoContent ->
                [@ EXCEPT !.inbox = NoRequest]
          [] req.operation = "update" ->
                [@ EXCEPT !.file = File(0), !.events = put(@, "modified"),
                          !.writing = TRUE]
          [] req.operation = "delete" /\ exists ->
                [@ EXCEPT !.file = Absent, !.events = put(@, "deleted"),
                          !.inbox = NoRequest]
          [] OTHER ->                                               \* already deleted
                [@ EXCEPT !.inbox = NoRequest]]

\* f.write(request.content), the close of the file and the response
EchoWrite(p) ==
    /\ peers[p].writing
    /\ peers' = [peers EXCEPT ![p] =
            [@ EXCEPT !.file = File(peers[p].inbox.content),
                      !.events = IF peers[p].inbox.content # 0
                                 THEN put(@, "modified") ELSE @,
                      !.inbox = NoRequest,
                      !.writing = FALSE]]

EchoFrame ==
    /\ UNCHANGED recvVars
    /\ UNCHANGED watchVars
    /\ UNCHANGED storeVars
    /\ UNCHANGED appVars
    /\ UNCHANGED raceVars
    /\ UNCHANGED tree

Watcher(p) == EchoWatch(p) /\ EchoFrame
Receiver(p) == (EchoReceive(p) \/ EchoWrite(p)) /\ EchoFrame

\* the caches of the two peers before the edit: empty, or the digest of the
\* content the two copies have
EchoCaches(entry) ==
    {NoChecksum} \cup (IF entry.kind = "file" THEN {Digest(entry.content)} ELSE {})

\* peer-a right after one local edit: a create, an update or a delete of
\* notes.txt, written in one step, and the events the observer queued for it
EchoEdits ==
    {<<Absent, File(c), IF c = 0 THEN <<"created">> ELSE <<"created", "modified">> >> :
            c \in Contents}
    \cup {<<File(c[1]), File(c[2]), <<"modified">> >> :
                c \in {x \in Contents \X Contents : x[1] # x[2]}}
    \cup {<<File(c), Absent, <<"deleted">> >> : c \in Contents}

InitEcho ==
    /\ RecvIdle
    /\ WatchIdle
    /\ sidecar = [q \in FsPaths |-> NoSidecar]
    /\ StoreIdle
    /\ AppRunning
    /\ RaceIdle
    /\ \E edit \in EchoEdits : \E cached \in EchoCaches(edit[1]) :
        peers = [p \in EchoPeers |->
                    IF p = "peer-a"
                    THEN EchoPeer(edit[2], cached, edit[3], NoRequest, FALSE)
                    ELSE EchoPeer(edit[1], cached, <<>>, NoRequest, FALSE)]

NextEcho == \E p \in EchoPeers : Watcher(p) \/ Receiver(p)

SpecEcho == InitEcho /\ [][NextEcho]_vars

\* every thread that can take a step takes one
FairSpecEcho ==
    /\ SpecEcho
    /\ \A p \in EchoPeers : WF_vars(Watcher(p)) /\ WF_vars(Receiver(p))

TypeOKEcho ==
    \A p \in EchoPeers :
        /\ peers[p].file \in {Absent} \cup {File(c) : c \in Contents}
        /\ peers[p].checksum \in {NoChecksum} \cup {Digest(c) : c \in Contents}
        /\ peers[p].writing => peers[p].inbox.content \in Contents
----------------------------------------------------------------------------
(* Properties of the receiver, checked under SpecRecv *)

Target == Join(base_path, request.target_path)
OldTarget == Join(base_path, request.old_path)

\* the permission kind section 4.5 asks for
RequiredKind(operation) ==
    IF operation \in {"create", "update"} THEN "write" ELSE "admin"

Allowed == ~grants.raises /\ RequiredKind(request.operation) \in grants.allowed

\* every entry but those at or below p is as it was before the request
UnchangedOutside(p) ==
    \A q \in FsPaths : ~IsPrefix(p, q) => tree[q] = treeBefore[q]

ErrorCodes ==
    {"PERMISSION_DENIED", "FILE_EXISTS", "FILE_NOT_FOUND", "UNKNOWN_OPERATION",
     "MISSING_OLD_PATH", "SOURCE_NOT_FOUND", "CREATE_ERROR", "UPDATE_ERROR",
     "DELETE_ERROR", "MOVE_ERROR", "SYNC_ERROR"}

\* C2: an envelope whose sender does not hold the required permission (write
\* for create and update, admin for delete and move), or whose permission
\* check fails, is answered success=false with PERMISSION_DENIED and leaves
\* the receiver's tree exactly as it was.
C2_DeniedLeavesTree ==
    (request.operation \in SyncOperation /\ ~Allowed) =>
        /\ ~escaped
        /\ response.success = FALSE
        /\ response.error_code = "PERMISSION_DENIED"
        /\ tree = treeBefore

\* a delete of an existing entry by a sender that holds write but not admin
C2_Witness ==
    /\ request.operation = "delete"
    /\ grants = [raises |-> FALSE, allowed |-> {"write"}]
    /\ PathExists(treeBefore, Target)
    /\ response.error_code = "PERMISSION_DENIED"
    /\ tree = treeBefore

\* C3: the handler always returns a response and never raises; a failure
\* carries one of the eleven error codes and a success carries none.
C3_AlwaysStructuredOutcome ==
    /\ ~escaped
    /\ request # NoRequest =>
        /\ response # NoResponse
        /\ response.success => response.error_code = NoErrorCode
        /\ ~response.success => response.error_code \in ErrorCodes

\* a filesystem fault inside a handler (a create below a regular file) that
\* came back as a structured failure
C3_Witness ==
    /\ request.operation = "create"
    /\ Allowed
    /\ PathIsFile(treeBefore, Parent(Target))
    /\ ~escaped
    /\ response.error_code = "CREATE_ERROR"

\* the file a create leaves: the envelope's content, or an empty file
CreatedFile == File(IF request.content = NoContent THEN 0 ELSE request.content)

\* the directories above the target exist after the request
ParentsAreDirs ==
    \A a \in AncestorsOrSelf(tree, Parent(Target)) : tree[a] = Dir

CreateOnAbsentSucceeds ==
    /\ response.success
    /\ tree[Target] = CreatedFile
    /\ ParentsAreDirs
    /\ \A q \in FsPaths :
        (q # Target /\ q \notin AncestorsOrSelf(tree, Parent(Target)))
            => tree[q] = treeBefore[q]

CreateOnExistingFails ==
    (request.operation = "create" /\ Allowed /\ PathExists(treeBefore, Target)) =>
        /\ response.success = FALSE
        /\ response.error_code = "FILE_EXISTS"
        /\ tree = treeBefore

\* a permitted create for the target of the successful create just before it
\* fails with FILE_EXISTS
CreateThenCreate ==
    (/\ request.operation = "create" /\ response.success
     /\ request'.operation = "create"
     /\ request'.target_path = request.target_path
     /\ ~grants'.raises /\ "write" \in grants'.allowed)
    => (response'.error_code = "FILE_EXISTS" /\ tree' = tree)

\* C4 as stated: every permitted create on an absent target succeeds, leaving
\* the content and the parent directories; on an existing target it fails
\* with FILE_EXISTS and changes nothing.
C4_Original ==
    /\ (request.operation = "create" /\ Allowed /\ ~PathExists(treeBefore, Target))
        => CreateOnAbsentSucceeds
    /\ CreateOnExistingFails

\* C4 amended: a permitted create on an absent target succeeds (content or
\* empty file, missing parent directories created) unless a directory above
\* the target is a regular file, in which case it fails with CREATE_ERROR and
\* changes nothing; on an existing target it fails with FILE_EXISTS and
\* changes nothing; so a second create right after a successful one fails
\* with FILE_EXISTS.
C4_StrictCreateState ==
    /\ (request.operation = "create" /\ Allowed /\ ~PathExists(treeBefore, Target)) =>
        IF \E a \in AncestorsOrSelf(treeBefore, Parent(Target)) : PathIsFile(treeBefore, a)
        THEN /\ response.success = FALSE
             /\ response.error_code = "CREATE_ERROR"
             /\ tree = treeBefore
        ELSE CreateOnAbsentSucceeds
    /\ CreateOnExistingFails

C4_StrictCreate == []C4_StrictCreateState /\ [][CreateThenCreate]_vars

\* a create without content, below a missing folder: the folder was made and
\* the file is empty
C4_Witness ==
    /\ request.operation = "create"
    /\ request.target_path = <<"docs", "notes.txt">>
    /\ request.content = NoContent
    /\ treeBefore[Join(base_path, <<"docs">>)] = Absent
    /\ response.success
    /\ tree[Join(base_path, <<"docs">>)] = Dir
    /\ tree[Target] = File(0)

\* C5: a permitted update on an absent target fails with FILE_NOT_FOUND and
\* the target stays absent; a permitted update on an existing file succeeds
\* and the file then holds the content the envelope carries.
C5_UpdateNeverCreates ==
    /\ (request.operation = "update" /\ Allowed /\ ~PathExists(treeBefore, Target)) =>
        /\ response.success = FALSE
        /\ response.error_code = "FILE_NOT_FOUND"
        /\ tree = treeBefore
    /\ (request.operation = "update" /\ Allowed /\ PathIsFile(treeBefore, Target)) =>
        /\ response.success
        /\ request.content # NoContent => tree[Target] = File(request.content)
        /\ UnchangedOutside(Target)

\* an update that replaced an existing file's content by a different one
C5_Witness ==
    /\ request.operation = "update"
    /\ Allowed
    /\ PathIsFile(treeBefore, Target)
    /\ request.content # NoContent
    /\ treeBefore[Target] # File(request.content)
    /\ response.success
    /\ tree[Target] = File(request.content)

\* the state a delete of the target must leave
DeletedState ==
    \A q \in FsPaths :
        tree[q] = IF IsPrefix(Target, q) THEN Absent ELSE treeBefore[q]

\* a permitted delete for the target of the successful delete just before it
\* succeeds and changes nothing
DeleteThenDelete ==
    (/\ request.operation = "delete" /\ response.success
     /\ request'.operation = "delete"
     /\ request'.target_path = request.target_path
     /\ ~grants'.raises /\ "admin" \in grants'.allowed)
    => (response'.success /\ tree' = tree)

\* C6: every permitted delete succeeds; afterwards the target and everything
\* below it is absent and nothing else changed (so nothing at all changes
\* when the target was absent), and a repeated delete succeeds again and
\* leaves the state of the first.
C6_DeleteIdempotent ==
    /\ [](request.operation = "delete" /\ Allowed
            => response.success /\ response.error_code = NoErrorCode /\ DeletedState)
    /\ [][DeleteThenDelete]_vars

\* the delete of a folder that held a file
C6_Witness ==
    /\ request.operation = "delete"
    /\ request.target_path = <<"docs">>
    /\ treeBefore[Target] = Dir
    /\ PathIsFile(treeBefore, Join(base_path, <<"docs", "notes.txt">>))
    /\ response.success
    /\ \A q \in FsPaths : IsPrefix(Target, q) => tree[q] = Absent

\* C7, its two failure cases: a permitted move without a previous path fails
\* with MISSING_OLD_PATH, one whose previous path does not exist fails with
\* SOURCE_NOT_FOUND, and neither changes the tree.
C7_MoveFailures ==
    /\ (request.operation = "move" /\ Allowed /\ request.old_path = NoPath) =>
        /\ response.success = FALSE
        /\ response.error_code = "MISSING_OLD_PATH"
        /\ tree = treeBefore
    /\ (request.operation = "move" /\ Allowed /\ request.old_path # NoPath
            /\ ~PathExists(treeBefore, OldTarget)) =>
        /\ response.success = FALSE
        /\ response.error_code = "SOURCE_NOT_FOUND"
        /\ tree = treeBefore

\* C7, its success case, for the moves the handler reports as done between
\* two different paths: the previous location is absent and the target
\* holds the entry that was at the previous location.
C7_MovedEntryIsAtTarget ==
    (/\ request.operation = "move" /\ Allowed
     /\ request.old_path # NoPath /\ request.old_path # request.target_path
     /\ PathExists(treeBefore, OldTarget)
     /\ response.success)
    => (tree[OldTarget] = Absent /\ tree[Target] = treeBefore[OldTarget])

\* a filesystem call of the permitted request's handler raised: mkdir below a
\* regular file, a write to a directory, a move shutil refuses
FsCallRaised ==
    /\ Allowed
    /\ \/ request.operation = "create" /\ MkdirParents(treeBefore, Parent(Target)).raised
       \/ /\ request.operation = "update"
          /\ PathExists(treeBefore, Target)
          /\ request.content # NoContent
          /\ WriteBytes(treeBefore, Target, request.content).raised
       \/ /\ request.operation = "move"
          /\ request.old_path # NoPath
          /\ PathExists(treeBefore, OldTarget)
          /\ LET made == MkdirParents(treeBefore, Parent(Target)) IN
             made.raised \/ ShutilMove(made.fs, OldTarget, Target).raised

\* the code the except block of each handler answers with
HandlerErrorCode(operation) ==
    CASE operation = "create" -> "CREATE_ERROR"
      [] operation = "update" -> "UPDATE_ERROR"
      [] operation = "delete" -> "DELETE_ERROR"
      [] operation = "move" -> "MOVE_ERROR"

\* C26 as stated: a failure raised while the receiver manipulates the
\* filesystem yields success=false with the code SYNC_ERROR.
C26_Original ==
    FsCallRaised => (response.success = FALSE /\ response.error_code = "SYNC_ERROR")

\* C26, with the code the handlers give: a failure raised while the receiver
\* manipulates the filesystem for a create, update, delete or move is caught
\* in the handler of the operation and yields success=false with a
\* diagnostic message and that operation's code (CREATE_ERROR, UPDATE_ERROR,
\* DELETE_ERROR, MOVE_ERROR), never SYNC_ERROR.
C26_FsFailureIsHandlerError ==
    FsCallRaised =>
        /\ ~escaped
        /\ response.success = FALSE
        /\ response.message # ""
        /\ response.error_code = HandlerErrorCode(request.operation)

\* an update whose target is a directory: the write raised
C26_Witness ==
    /\ request.operation = "update"
    /\ Allowed
    /\ request.content # NoContent
    /\ PathIsDir(treeBefore, Target)
    /\ response.success = FALSE
    /\ response.error_code = "UPDATE_ERROR"
    /\ tree = treeBefore

----------------------------------------------------------------------------
(* Properties of the watcher and its dispatcher, checked under SpecWatch *)

\* the path the handler passes on: the new path of a move, else the event's path
EventPath ==
    IF lastEvent.kind = "moved" THEN lastEvent.dest_path ELSE lastEvent.src_path

\* the rules of the path's sidecar; none when it is missing or unparsable
RulesOf(p) ==
    IF p \in DOMAIN sidecar /\ sidecar[p].state = "parsed" THEN sidecar[p].rules ELSE <<>>

\* the concrete peers named by an instant rule of p whose operations hold op
Qualifying(p, op) ==
    {u \in Peers :
        \E i \in DOMAIN RulesOf(p) :
            /\ RulesOf(p)[i].priority = "instant"
            /\ op \in Range(RulesOf(p)[i].operations)
            /\ u \in Range(RulesOf(p)[i].users)}

CallsTo(u) == {i \in DOMAIN sent : sent[i].target_user = u}

\* the envelope of a call: the event's operation and relative path, and for
\* a create or update of a readable file its content with the content's digest
EnvelopeMatchesEvent(i) ==
    LET req == sent[i].request IN
    /\ req.operation = handled.operation
    /\ req.target_path = RelativeTo(EventPath, watch_path)
    /\ req.sender = Self
    /\ IF handled.operation \in {"create", "update"} /\ PathIsFile(tree, EventPath)
       THEN req.content = tree[EventPath].content
            /\ req.checksum = Digest(tree[EventPath].content)
       ELSE req.content = NoContent /\ req.checksum = NoChecksum

\* C1: for an event passed to the dispatcher with operation op, exactly one
\* delivery attempt is made to each concrete peer (not the local identity)
\* named by at least one instant rule of the path that holds op, also when
\* several rules name it, and none to anyone else; the envelope carries the
\* operation and, for create and update, the digest of the file's content.
C1_OneAttemptPerQualifyingPeer ==
    handled.called =>
        /\ \A u \in Qualifying(EventPath, handled.operation) : Cardinality(CallsTo(u)) = 1
        /\ \A i \in DOMAIN sent :
            /\ sent[i].target_user \in Qualifying(EventPath, handled.operation)
            /\ EnvelopeMatchesEvent(i)

\* an update of notes.txt under two instant rules that both name peer-b for
\* update: one attempt to peer-b, one to peer-c, each with the content's digest
C1_Witness ==
    /\ lastEvent.kind = "modified"
    /\ handled.called
    /\ PathIsFile(tree, EventPath)
    /\ Cardinality({i \in DOMAIN RulesOf(EventPath) :
            /\ RulesOf(EventPath)[i].priority = "instant"
            /\ "update" \in Range(RulesOf(EventPath)[i].operations)
            /\ "peer-b" \in Range(RulesOf(EventPath)[i].users)}) = 2
    /\ Cardinality(CallsTo("peer-b")) = 1
    /\ \A i \in CallsTo("peer-b") :
        /\ sent[i].request.operation = "update"
        /\ sent[i].request.checksum = Digest(tree[EventPath].content)

\* a modified notification for a watched file the handler could read
ReadableModified ==
    /\ lastEvent.kind = "modified"
    /\ ~lastEvent.is_directory
    /\ ~should_ignore(lastEvent.src_path)
    /\ PathIsFile(tree, lastEvent.src_path)

\* an unchanged digest is dropped before the dispatcher, a changed one is
\* propagated as an update and cached
DedupState ==
    ReadableModified =>
        LET digest == Digest(tree[lastEvent.src_path].content) IN
        IF digest = handled.old_checksum
        THEN /\ ~handled.called
             /\ sent = <<>>
             /\ file_checksums[lastEvent.src_path] = handled.old_checksum
        ELSE /\ handled.called
             /\ handled.operation = "update"
             /\ file_checksums[lastEvent.src_path] = digest

\* the notification that follows a modified notification for the same file,
\* with the content untouched in between, is not propagated
DedupStep ==
    (ReadableModified /\ lastEvent' = lastEvent /\ tree' = tree)
        => (~handled'.called /\ sent' = <<>>)

\* C8, for a file the detector can read: of two consecutive modified
\* notifications between which the content did not change, the second is
\* discarded before the dispatcher is consulted; a notification whose digest
\* differs from the cached one is propagated as an update and the cache then
\* holds the new digest.
C8_ModifiedDedup == []DedupState /\ [][DedupStep]_vars

\* C8 as stated, for any file: the second of two consecutive modified
\* notifications with the tree untouched in between is never propagated.
\* A file that cannot be read (it vanished before the handler ran) has
\* every notification propagated.
C8_Original ==
    [][(/\ lastEvent.kind = "modified"
        /\ ~lastEvent.is_directory
        /\ ~should_ignore(lastEvent.src_path)
        /\ lastEvent' = lastEvent
        /\ tree' = tree)
       => ~handled'.called]_vars

\* a notification dropped because the cache already holds the file's digest
C8_Witness ==
    /\ ReadableModified
    /\ handled.old_checksum = Digest(tree[lastEvent.src_path].content)
    /\ ~handled.called
    /\ sent = <<>>
    /\ Qualifying(EventPath, "update") # {}

\* the only state the handler keeps is the checksum cache, and what it holds
\* for the event's path does not depend on how the calls ended
CacheAfterEvent ==
    (handled.called /\ EventPath \in DOMAIN file_checksums) =>
        file_checksums[EventPath] =
            CASE lastEvent.kind = "deleted" -> NoChecksum
              [] lastEvent.kind = "modified" /\ PathIsFile(tree, EventPath)
                    -> Digest(tree[EventPath].content)
              [] OTHER -> handled.old_checksum

\* C9: for one event at most one envelope goes to a given peer, also when
\* the attempt ends in a timeout, a transport failure or a non-success
\* response; every envelope sent belongs to the event being handled, and
\* nothing about a failed attempt is kept.
C9_AtMostOncePerPeer ==
    /\ \A i, j \in DOMAIN sent : sent[i].target_user = sent[j].target_user => i = j
    /\ \A i \in DOMAIN sent : EnvelopeMatchesEvent(i)
    /\ lastEvent = NoEvent => sent = <<>>
    /\ CacheAfterEvent

\* an event with two attempts of which one ended in an exception and one in
\* a response with success=false
C9_Witness ==
    /\ Len(sent) = 2
    /\ \E i \in DOMAIN sent : sent[i].outcome = "raised" /\ sent[i].returned = "None"
    /\ \E i \in DOMAIN sent : sent[i].outcome = "rejected"
    /\ Cardinality({sent[i].target_user : i \in DOMAIN sent}) = 2

\* C10: every qualifying peer other than the local identity gets its
\* attempt, however the attempts to the other peers ended.
C10_FailuresAreIndependent ==
    handled.called =>
        \A u \in Qualifying(EventPath, handled.operation) :
            \E i \in DOMAIN sent : sent[i].target_user = u

\* the first call raised and the peer after it was still called
C10_Witness ==
    /\ handled.called
    /\ Len(sent) = 2
    /\ sent[1].outcome = "raised"
    /\ sent[2].target_user # sent[1].target_user
    /\ sent[2].target_user \in Qualifying(EventPath, handled.operation)

\* the cache the handler leaves after an event, from the cache before, the
\* event and the tree alone: a delete drops the entry, a modified
\* notification for a readable file stores its digest, anything else leaves
\* the cache as it was
CacheAfter(checksums, event, f) ==
    [q \in DOMAIN checksums |->
        IF event.kind = "deleted" /\ q = event.src_path /\ ~should_ignore(q)
            THEN NoChecksum
        ELSE IF /\ event.kind = "modified" /\ q = event.src_path
                /\ ~event.is_directory /\ ~should_ignore(q) /\ PathIsFile(f, q)
            THEN Digest(f[q].content)
        ELSE checksums[q]]

\* an event is handled as the cache, the tree and the sidecars say, whatever
\* failed while it or an earlier event was handled
HandledRegardless ==
    lastEvent' # NoEvent =>
        /\ file_checksums' = CacheAfter(file_checksums, lastEvent', tree)
        /\ sidecar' = sidecar
        /\ tree' = tree
        /\ handled'.called =>
            \A u \in Qualifying(EventPath', handled'.operation) :
                \E i \in DOMAIN sent' : sent'[i].target_user = u

\* C11: whatever goes wrong while one event is handled (a path outside the
\* watch root, an unreadable file, a corrupt sidecar, a failing peer), the
\* handler returns to the observer without raising, so the observer stays
\* alive, and every later event is classified and dispatched from the cache,
\* the tree and the sidecars as if the failure had not happened.
C11_WatchLoopSurvives == []observer_alive /\ [][HandledRegardless]_vars

\* after an event that failed, a modified notification is dispatched and
\* delivered to a peer
C11_Witness ==
    /\ failed_before
    /\ observer_alive
    /\ lastEvent.kind = "modified"
    /\ PathIsFile(tree, lastEvent.src_path)
    /\ RulesOf(lastEvent.src_path) # <<>>
    /\ handled.called
    /\ sent # <<>>
    /\ \A i \in DOMAIN sent : sent[i].outcome = "success"

\* C12: no envelope is ever sent to the local identity, also when an instant
\* rule of the path names it for the operation.
C12_NeverSelfSync ==
    \A i \in DOMAIN sent : sent[i].target_user # client_email

\* an event dispatched to a peer under an instant rule that names the local
\* identity for the operation
C12_Witness ==
    /\ handled.called
    /\ sent # <<>>
    /\ \E i \in DOMAIN RulesOf(EventPath) :
        /\ RulesOf(EventPath)[i].priority = "instant"
        /\ handled.operation \in Range(RulesOf(EventPath)[i].operations)
        /\ client_email \in Range(RulesOf(EventPath)[i].users)

\* the instant rules of p that hold op
InstantRulesFor(p, op) ==
    {i \in DOMAIN RulesOf(p) :
        /\ RulesOf(p)[i].priority = "instant"
        /\ op \in Range(RulesOf(p)[i].operations)}

C28_MovePreviousPathRelative ==
    \A i \in DOMAIN sent :
        sent[i].request.operation = "move" =>
            LET req == sent[i].request
                peer_base == BasePathOf(sent[i].target_user)
            IN /\ req.target_path = RelativeTo(lastEvent.dest_path, watch_path)
               /\ req.old_path = RelativeTo(lastEvent.src_path, watch_path)
               /\ IsUnder(Join(peer_base, req.old_path), peer_base)

\* the rules of p that name u or the wildcard, and the first of them
CoveringRules(p, u) ==
    {i \in DOMAIN RulesOf(p) :
        u \in Range(RulesOf(p)[i].users) \/ Wildcard \in Range(RulesOf(p)[i].users)}
FirstCoveringRule(p, u) ==
    CHOOSE i \in CoveringRules(p, u) : \A j \in CoveringRules(p, u) : i <= j

\* C30 as stated: a delivery to u is attempted only if
\* get_effective_priority(path, u) is instant.
C30_Original ==
    handled.called =>
        \A i \in DOMAIN sent :
            get_sync_priority(sidecar, EventPath, sent[i].target_user) = "instant"

\* C30, with the order of the rules: a delivery to u is attempted only if an
\* instant rule of the path that holds the operation names u; the effective
\* priority of u is that of the first rule that names u or the wildcard, so
\* it is instant as well unless a normal rule covering u is stored before
\* every instant rule covering u, and a peer that no instant rule names
\* never receives a delivery.
C30_DispatchFollowsInstantRules ==
    handled.called =>
        /\ \A i \in DOMAIN sent :
            LET u == sent[i].target_user IN
            /\ \E j \in InstantRulesFor(EventPath, handled.operation) :
                    u \in Range(RulesOf(EventPath)[j].users)
            /\ get_sync_priority(sidecar, EventPath, u)
                    = RulesOf(EventPath)[FirstCoveringRule(EventPath, u)].priority
        /\ \A u \in Peers :
            (\A j \in CoveringRules(EventPath, u) : RulesOf(EventPath)[j].priority = "normal")
                => CallsTo(u) = {}

\* peer-b, instant, is called; peer-c, covered by a normal rule only, is not
C30_Witness ==
    /\ handled.called
    /\ Len(RulesOf(EventPath)) = 2
    /\ sent # <<>>
    /\ \A i \in DOMAIN sent : sent[i].target_user = "peer-b"
    /\ get_sync_priority(sidecar, EventPath, "peer-b") = "instant"
    /\ CoveringRules(EventPath, "peer-c") # {}
    /\ handled.operation \in Range(RulesOf(EventPath)[FirstCoveringRule(EventPath, "peer-c")].operations)
    /\ get_sync_priority(sidecar, EventPath, "peer-c") = "normal"

----------------------------------------------------------------------------
(* Properties of the watcher over a folder, checked under SpecDocs *)

\* C25 as stated: once the handler has processed the delete event of a path
\* that is gone, a file or a folder, the checksum cache holds no entry for
\* that path nor for a path below it, so that a modified notification after
\* the path is made again finds nothing cached for it.
C25_CachePurgedOnDelete ==
    (lastEvent.kind = "deleted" /\ handled.called /\ ~PathExists(tree, lastEvent.src_path)) =>
        \A p \in DOMAIN file_checksums :
            IsPrefix(lastEvent.src_path, p) => file_checksums[p] = NoChecksum

----------------------------------------------------------------------------
(* Properties of the rule store, checked under SpecStore *)

\* the rules a sidecar map holds for a path; none when it is missing or unparsable
RulesIn(sidecars, p) ==
    IF sidecars[p].state = "parsed" THEN sidecars[p].rules ELSE <<>>

\* the rules that cover a user: they name the user or the wildcard
Covering(rules, u) ==
    {i \in DOMAIN rules : u \in Range(rules[i].users) \/ Wildcard \in Range(rules[i].users)}

SetReturnedTrue == api_call.op = "set" /\ api_call.result = "True"

\* a user in no rule of the path, with no rule holding the wildcard, gets normal
UncoveredIsNormal ==
    \A u \in Users :
        Covering(RulesIn(sidecar, api_call.file_path), u) = {}
            => get_sync_priority(sidecar, api_call.file_path, u) = "normal"

\* C13 as stated: after set_rule(path, S, p, ops) returned true, every user of
\* S gets p from get_effective_priority, in any state of the rule store.
C13_Original ==
    SetReturnedTrue =>
        /\ \A u \in Range(api_call.users.value) :
            get_sync_priority(sidecar, api_call.file_path, u) = api_call.priority
        /\ UncoveredIsNormal

\* C13, for the users no earlier rule covers: after set_rule(path, S, p, ops)
\* returned true, get_effective_priority(path, u) is p for every user u of S
\* that no rule stored before the new one names or covers by the wildcard;
\* a user in no rule, when no rule holds the wildcard, gets normal.
C13_SetThenGet ==
    SetReturnedTrue =>
        LET rules == RulesIn(sidecar, api_call.file_path) IN
        /\ \A u \in Range(api_call.users.value) :
            (\A i \in Covering(rules, u) : i = Len(rules))
                => get_sync_priority(sidecar, api_call.file_path, u) = api_call.priority
        /\ UncoveredIsNormal

\* a rule for peer-b set after another rule: peer-b gets the new priority,
\* peer-d, in no rule, gets normal
C13_Witness ==
    /\ SetReturnedTrue
    /\ api_call.priority = "instant"
    /\ Len(RulesIn(sidecar, api_call.file_path)) = 2
    /\ RulesIn(sidecarBefore, api_call.file_path) # <<>>
    /\ get_sync_priority(sidecar, api_call.file_path, "peer-b") = "instant"
    /\ get_sync_priority(sidecar, api_call.file_path, "peer-d") = "normal"
    /\ Covering(RulesIn(sidecar, api_call.file_path), "peer-b") = {2}

\* the rules of a list whose user-set is not S, in order
OtherThan(rules, S) == SelectSeq(rules, LAMBDA r : Range(r.users) # S)

\* C14: set_rule is an upsert keyed by the user-set: after a successful
\* set_rule for the user-set S, also when a rule for S (listed in the same or
\* another order, with the same or another priority or operations) was
\* stored before, exactly one rule has the user-set S, it carries the
\* priority and operations of this call, and the rules for other user-sets
\* are what they were, in the same order.
C14_UpsertByUserSet ==
    SetReturnedTrue =>
        LET p == api_call.file_path
            S == Range(api_call.users.value)
            rules == RulesIn(sidecar, p)
            mine == {i \in DOMAIN rules : Range(rules[i].users) = S}
        IN /\ Cardinality(mine) = 1
           /\ \A i \in mine :
                /\ rules[i].users = api_call.users.value
                /\ rules[i].priority = api_call.priority
                /\ rules[i].operations =
                    (IF api_call.operations.given THEN api_call.operations.value
                     ELSE AllOperations)
           /\ OtherThan(rules, S) = OtherThan(RulesIn(sidecarBefore, p), S)

\* the second set_rule for {peer-b, peer-c}: a rule for that set, listed in
\* the other order, was stored next to a rule for another set
C14_Witness ==
    /\ SetReturnedTrue
    /\ Len(RulesIn(sidecarBefore, api_call.file_path)) = 2
    /\ Len(RulesIn(sidecar, api_call.file_path)) = 2
    /\ \E i \in DOMAIN RulesIn(sidecarBefore, api_call.file_path) :
        LET r == RulesIn(sidecarBefore, api_call.file_path)[i] IN
        /\ Range(r.users) = Range(api_call.users.value)
        /\ r.users # api_call.users.value
    /\ Cardinality(Range(api_call.users.value)) = 2

\* C15 as stated: after any sequence of set_rule and remove_rule calls, no
\* two stored rules of a path have equal user-sets.
C15_OneRulePerUserSet ==
    \A p \in StorePaths :
        \A i, j \in DOMAIN RulesIn(sidecar, p) :
            Range(RulesIn(sidecar, p)[i].users) = Range(RulesIn(sidecar, p)[j].users)
                => i = j

\* a remove_rule with users, on a path whose sidecar loaded, that returned true
RemovedUsers ==
    /\ api_call.op = "remove"
    /\ api_call.users.given
    /\ api_call.result = "True"
    /\ sidecarBefore[api_call.file_path].state = "parsed"

\* every rule without the removed users, the rules left without users taken out
WithoutUsers(rules, U) ==
    SelectSeq([i \in DOMAIN rules |->
                    [rules[i] EXCEPT !.users = SelectSeq(@, LAMBDA u : u \notin U)]],
              LAMBDA r : r.users # <<>>)

\* what remove_rule leaves in the sidecar, and what the removed users then get
RemoveEffect ==
    LET p == api_call.file_path
        U == Range(api_call.users.value)
        left == WithoutUsers(RulesIn(sidecarBefore, p), U)
    IN /\ sidecar[p] = (IF left = <<>> THEN NoSidecar ELSE SidecarWith(left))
       /\ \A q \in DOMAIN sidecar : q # p => sidecar[q] = sidecarBefore[q]
       /\ \A u \in (U \cap Users) :
            LET wild == {i \in DOMAIN left : Wildcard \in Range(left[i].users)} IN
            get_sync_priority(sidecar, p, u) =
                (IF wild = {} THEN "normal"
                 ELSE left[CHOOSE i \in wild : \A j \in wild : i <= j].priority)

\* the users still named by a rule get what they got before
RemainingKeepPriority ==
    \A u \in Users \ Range(api_call.users.value) :
        (\E i \in DOMAIN RulesIn(sidecar, api_call.file_path) :
            u \in Range(RulesIn(sidecar, api_call.file_path)[i].users))
        => get_sync_priority(sidecar, api_call.file_path, u)
            = get_sync_priority(sidecarBefore, api_call.file_path, u)

\* C16 as stated: remove_rule(path, U) takes the identifiers of U out of
\* every rule, keeps the other rules' users, priority, operations and order,
\* drops the rules left empty and deletes the sidecar when none remains;
\* removed users get normal unless the wildcard covers them and remaining
\* users keep their priority, for every U.
C16_Original == RemovedUsers => (RemoveEffect /\ RemainingKeepPriority)

\* C16, with the wildcard set apart: the effect on the rules and on the
\* removed users is as stated; the remaining users keep their priority when
\* U does not hold the wildcard.
C16_RemoveUsers ==
    RemovedUsers =>
        /\ RemoveEffect
        /\ Wildcard \notin Range(api_call.users.value) => RemainingKeepPriority

\* peer-c removed from a list of two rules: the rule for {peer-b, peer-c}
\* stays with peer-b alone, peer-c gets normal and peer-b keeps instant
C16_Witness ==
    /\ RemovedUsers
    /\ api_call.users.value = <<"peer-c">>
    /\ Len(RulesIn(sidecarBefore, api_call.file_path)) = 2
    /\ Len(RulesIn(sidecar, api_call.file_path)) = 2
    /\ sidecar # sidecarBefore
    /\ get_sync_priority(sidecarBefore, api_call.file_path, "peer-c") = "instant"
    /\ get_sync_priority(sidecar, api_call.file_path, "peer-c") = "normal"
    /\ get_sync_priority(sidecar, api_call.file_path, "peer-b") = "instant"

\* a remove_rule without users for which the filesystem did not fail
RemovedAll ==
    /\ api_call.op = "remove"
    /\ ~api_call.users.given
    /\ api_call.fs = "ok"

\* C17: remove_rule(path) without users, the delete not failing, returns true
\* whether or not a sidecar existed; afterwards the path has no sidecar, load
\* is absent, every user gets normal, and the sidecars of other paths are
\* what they were.
C17_RemoveAll ==
    RemovedAll =>
        LET p == api_call.file_path IN
        /\ api_call.result = "True"
        /\ sidecar[p] = NoSidecar
        /\ ~load_sync_priority(sidecar, p).loaded
        /\ \A u \in Users : get_sync_priority(sidecar, p, u) = "normal"
        /\ \A q \in DOMAIN sidecar : q # p => sidecar[q] = sidecarBefore[q]

\* a sidecar with rules deleted while another path keeps its own
C17_Witness ==
    /\ RemovedAll
    /\ RulesIn(sidecarBefore, api_call.file_path) # <<>>
    /\ sidecar[api_call.file_path] = NoSidecar
    /\ \E q \in DOMAIN sidecar : q # api_call.file_path /\ sidecar[q] = OtherSidecar

FirstCovering(rules, u) == CHOOSE i \in Covering(rules, u) : \A j \in Covering(rules, u) : i <= j

\* C19: get_effective_priority(path, user) is normal when the path has no
\* sidecar or an unparsable one; otherwise it is the priority of the first
\* rule, in stored order, whose users hold the user or the wildcard, and
\* normal when no rule does.
C19_FirstMatchWins ==
    api_call.op = "get" =>
        LET p == api_call.file_path
            u == api_call.users.value[1]
            rules == sidecar[p].rules
        IN api_call.result =
            (IF sidecar[p].state # "parsed" THEN "normal"
             ELSE IF Covering(rules, u) = {} THEN "normal"
             ELSE rules[FirstCovering(rules, u)].priority)

\* a user covered by two rules with different priorities gets the earlier one
C19_Witness ==
    /\ api_call.op = "get"
    /\ LET rules == RulesIn(sidecar, api_call.file_path)
           u == api_call.users.value[1]
       IN /\ Cardinality(Covering(rules, u)) = 2
          /\ \E i, j \in Covering(rules, u) :
                i < j /\ rules[i].priority # rules[j].priority
                      /\ api_call.result = rules[i].priority

\* C20 as stated: set_rule and remove_rule end by returning a boolean, load
\* by returning a config or absent, get_effective_priority by returning a
\* priority, for every input; and when set_rule returns false the stored
\* rules are what they were.
C20_NoExceptionCrosses ==
    /\ api_call.op \in {"set", "remove"} => api_call.result \in {"True", "False"}
    /\ api_call.op = "load" => api_call.result \in {"SyncPriorityConfig", "None"}
    /\ api_call.op = "get" => api_call.result \in SyncPriority
    /\ (api_call.op = "set" /\ api_call.result = "False") => sidecar = sidecarBefore

\* C23: on a path that had no sidecar at first and is managed by set_rule
\* and remove_rule calls alone (the filesystem carrying out every write and
\* delete), the sidecar exists exactly when the path has at least one rule,
\* every stored rule has a non-empty user list, and no sidecar with an empty
\* rule list is left on disk.
C23_SidecarLifecycle ==
    rules_api_only =>
        \A p \in StorePaths :
            \/ sidecar[p] = NoSidecar
            \/ /\ sidecar[p].state = "parsed"
               /\ sidecar[p].rules # <<>>
               /\ \A i \in DOMAIN sidecar[p].rules : sidecar[p].rules[i].users # <<>>

\* the last user of the last rule is removed and the sidecar is deleted
C23_Witness ==
    /\ rules_api_only
    /\ api_call.op = "remove"
    /\ api_call.users.given
    /\ Len(RulesIn(sidecarBefore, api_call.file_path)) = 1
    /\ sidecar[api_call.file_path] = NoSidecar

-----------------------------------------------------------------------------
(* Properties of starting and stopping the app, checked under SpecApp *)

\* the watcher is stopped and joined before app.stop() returns and the
\* process exits
StoppedAndJoined ==
    main_pc \in {"stopped", "exited"} => observer_thread \in {"none", "ended"}

\* once app.stop() has returned no filesystem event is handled: no event
\* is recorded as the last one and the checksum cache stays as it is
NoEventAfterStop ==
    [][(main_pc \in {"stopped", "exited"}) =>
            (/\ lastEvent' \in {lastEvent, NoEvent}
             /\ file_checksums' = file_checksums)]_vars

\* app.stop() returns, so that sys.exit(0) is reached, also when no watcher
\* was ever started
StopReturns == main_pc # "raised"

\* C21: when a shutdown signal arrives the watcher is stopped and joined
\* before the process exits, no event is classified or dispatched after
\* stop has returned, and shutdown completes also when no watcher was ever
\* started
C21_ShutdownOrdering ==
    /\ []StoppedAndJoined
    /\ NoEventAfterStop
    /\ []StopReturns

-----------------------------------------------------------------------------
(* Properties of concurrent set_sync_priority calls, checked under SpecRace *)

\* the peers the last event was sent to
SentTo == {sent[i].target_user : i \in DOMAIN sent}

\* C22: a load that interleaves with a save of the same path returns a
\* complete config, the one from before the save or the one it writes,
\* never None, empty or partial; so an event handled during a rule update is
\* dispatched by the old or the new rule set, never to nobody.  Here every
\* config that is ever saved holds the rule the sidecar started with, so
\* every load returns a config with at least that rule and every handled
\* event of the file is sent to at least one peer.
C22_SaveAtomicForReaders ==
    /\ api_call.op = "load" =>
            /\ api_call.result = "SyncPriorityConfig"
            /\ RaceRule \in Range(api_call.rules)
    /\ (handled.called /\ lastEvent.src_path = RaceFile) => SentTo # {}

\* the sidecar after the calls of w and then v, one after the other
SerialResult(w, v) ==
    LET first == set_sync_priority([sidecar EXCEPT ![RaceFile] = RaceSidecar], RaceFile,
                        RaceUsers(w), set_calls[w].priority, None, "ok")
    IN set_sync_priority(first.sidecars, RaceFile,
                        RaceUsers(v), set_calls[v].priority, None, "ok").sidecars[RaceFile]

\* C27: when two set_sync_priority calls on the same path for two different
\* user-sets run concurrently and both return True, the sidecar afterwards
\* holds a rule for each of the two user-sets: it is what the two calls
\* leave when they run one after the other in some order.
C27_NoLostUpdate ==
    (\A w \in Writers : set_calls[w].pc = "done" /\ set_calls[w].result = "True") =>
        /\ \A w \in Writers :
            \E i \in DOMAIN sidecar[RaceFile].rules :
                same_users(sidecar[RaceFile].rules[i].users, RaceUsers(w))
        /\ sidecar[RaceFile] \in {SerialResult("w1", "w2"), SerialResult("w2", "w1")}

-----------------------------------------------------------------------------
(* Properties of two peers that sync one file, checked under FairSpecEcho *)

\* no event waits in an observer queue and no request is being handled
EchoQuiet == \A p \in EchoPeers : peers[p].events = <<>> /\ peers[p].inbox = NoRequest

\* C29: two peers each run a watcher and a receiver over the same tree and
\* each holds an instant rule for the path naming the other; after a single
\* local create, update or delete on peer-a and no further local edit, the
\* exchange ends after finitely many envelopes: from some point on neither
\* peer sends anything more.
C29_NoEndlessEcho == <>[]EchoQuiet

-----------------------------------------------------------------------------
(* Properties of a receiver move onto an occupied target, checked under SpecRecv *)

\* C32: a receiver move never destroys an entry that already exists at the
\* target: when the target path of a permitted move envelope is occupied by
\* a file or a directory, what was at the target before the move (the file
\* with its content, or the directory with the entries below it) is still
\* there after the handler returned.
C32_MoveKeepsTarget ==
    (request.operation = "move" /\ Allowed /\ PathExists(treeBefore, Target)) =>
        \A q \in FsPaths :
            (IsPrefix(Target, q) /\ treeBefore[q].kind # "absent") => tree[q] = treeBefore[q]

-----------------------------------------------------------------------------
(* Properties of the receiver and the paths outside its base, checked under SpecEscape *)

\* C31: the receiver only mutates entries under its own base path: for every
\* envelope, also one whose target path or previous path is absolute, every
\* file or directory it creates, overwrites, deletes or moves lies inside
\* base_path (the entries outside it are as they were before the request),
\* and so does the path the permission check is asked about.
C31_ReceiverStaysInBase ==
    request # NoRequest =>
        /\ \A q \in DOMAIN tree : ~IsPrefix(base_path, q) => tree[q] = treeBefore[q]
        /\ IsPrefix(base_path, full_path(request.target_path))

====
